---- MODULE Spec2Model ----
(***************************************************************************)
(* BrowserChild (dom/ipc/BrowserChild.cpp): the per-tab actor of a content *)
(* process.  The model covers the delayed two-pass delete, the pending     *)
(* docshell blockers, the layers-observer epoch of RecvRenderLayers, the   *)
(* sBrowserChildren registry and the mouse / wheel coalescing buffers.     *)
(***************************************************************************)
EXTENDS Integers, Sequences, FiniteSets, TLC

\* ------------------------------------------------------------------ bounds
MaxTasks == 3        \* opaque inbound tasks the event loop is given
MaxDestroy == 2      \* Destroy instructions the parent delivers
MaxEpoch == 4        \* largest LayersObserverEpoch a request carries
MaxBlockers == 2     \* nesting depth of AddPendingDocShellBlocker
MaxLayersId == 2     \* valid LayersId values are 1..MaxLayersId
MaxActiveLog == 3    \* applied activations that are recorded
MaxMouseEvents == 2  \* mouse events received
MaxWheelEvents == 2  \* wheel events received
MaxPointerId == 2    \* pointer identities are 1..MaxPointerId
MaxPayload == 2      \* positions, compatibility classes, input block ids
MaxTime == 5         \* event timestamps are 1..MaxTime
MaxDuration == 2     \* measured dispatch durations are 0..MaxDuration
MaxInbound == 2      \* effects of inbound messages in gate and teardown runs
MaxHeld == 3          \* mouse events held or dispatched in step-by-step runs
MaxSpacing == 1      \* timestamps of a wheel burst grow by at most this
MaxKeyEvents == 4    \* RealKeyEvent messages received
MaxBeforeUnloadListeners == 3  \* beforeunload listeners at a time
MaxBeforeUnloadMessages == 5   \* SetHasBeforeUnload messages sent
MaxNavigateOps == 2            \* client navigate operations
MaxUnpaired == 2     \* RemovePendingDocShellBlocker calls with no matching add

\* -------------------------------------------------------- program constants
InitialLayersObserverEpoch == 1
PendingEpochInit == 0
InvalidLayersId == 0
NullTimeStamp == 0

PRIORITY_NORMAL == "normal"
PRIORITY_INPUT == "input"

LayersIds == 1..MaxLayersId
Epochs == 1..MaxEpoch

\* Sets of render-state requests with pairwise distinct epochs, as functions
\* from the epochs requested to the enabled flag of the request.
RequestSets == UNION {[S -> BOOLEAN] : S \in SUBSET Epochs}

VARIABLES
  \* build and process
  debugBuild,          \* MOZ_ASSERT is compiled in
  isMiddleman,         \* recordreplay::parent::IsMiddlemanWithRecordingChild()
  crashed,             \* a MOZ_ASSERT failed and the process aborted
  \* actor lifecycle
  initState,           \* "none" | "ok" | "failed": outcome of BrowserChild::Init
  mIPCOpen,
  mDestroyed,
  actorDestroyed,      \* ActorDestroy has been called by the IPC layer
  destructed,          \* ~BrowserChild has run
  mCoalesceMouseMoveEvents,
  mCoalescedMouseEventFlusher,  \* TRUE while the flusher object exists
  \* registry
  mLayersId,
  sBrowserChildren,    \* [alloc: BOOLEAN, ids: set of registered LayersIds]
  sBrowserChildrenMutex,  \* "free" or the thread that holds the mutex
  compositor,          \* the compositor thread's call of GetFrom(LayersId)
  \* main-thread event queues and the delayed-delete runnables
  normalQueue,
  inputQueue,
  runnables,           \* sequence of DelayedDeleteRunnable objects
  deleteSent,          \* number of Send__delete__ calls made
  destroyCount,        \* number of Destroy instructions delivered
  nextTaskId,
  ranTasks,            \* ids of the opaque tasks that have run
  queuedAtDestroy,     \* ids queued, per queue, when Destroy was first processed
  finalRunLog,         \* per final run: <<runnable, channel open, tasks run>>
  \* pending docshell blockers and render state
  mLayersObserverEpoch,
  mPendingDocShellBlockers,
  mPendingDocShellIsActive,
  mPendingDocShellReceivedMessage,
  mPendingRenderLayers,
  mPendingRenderLayersReceivedMessage,
  mPendingLayersObserverEpoch,
  visible,             \* mPuppetWidget->IsVisible()
  appliedRender,       \* log of applied requests: <<epoch, enabled>>
  sentNoOp,            \* log of SendPaintWhileInterruptingJSNoOp epochs
  paintLog,            \* epochs whose request ran MakeVisible and the repaint
  activeLog,           \* log of InternalSetDocShellIsActive values
  \* mouse and wheel coalescing
  mCoalescedMouseData,       \* pointerId -> CoalescedMouseData
  mToBeDispatchedMouseData,  \* queue of CoalescedMouseData to dispatch
  drainFrames,               \* open calls of ProcessPendingCoalescedMouseData-
                             \* AndDispatchEvents, the innermost last
  dispatchedMouse,           \* log of HandleRealMouseButtonEvent calls
  mCoalescedWheelData,
  mLastWheelProcessedTimeFromParent,
  mLastWheelProcessingDuration,
  dispatchedWheel,           \* log of DispatchWheelEvent calls
  \* repeated key events
  mRepeatedKeyEventTime,     \* end of the handling of the last repeated key
  mSkipKeyPress,
  mIgnoreKeyPressEvent,
  handledKeys,               \* number of RealKeyEvent messages received
  \* beforeunload listeners
  mBeforeUnloadListeners,
  sentHasBeforeUnload,       \* log of SendSetHasBeforeUnload arguments
  \* client navigate operations
  navigateOps,               \* one ClientNavigateOpChild actor per operation
  requested,           \* the requests the parent makes: epoch -> enabled
  undelivered,         \* epochs of the requests not yet handed over
  unexpedited,         \* epochs of the enable requests whose copy on the hang
                       \* monitor channel has not yet arrived
  lastOp               \* the handler that ran last, with its inputs and outcome

lifeVars == <<debugBuild, isMiddleman, crashed, initState, mIPCOpen, mDestroyed,
              actorDestroyed, destructed, mCoalesceMouseMoveEvents,
              mCoalescedMouseEventFlusher>>
registryVars == <<mLayersId, sBrowserChildren, sBrowserChildrenMutex,
                  compositor>>
queueVars == <<normalQueue, inputQueue, runnables, deleteSent, destroyCount,
               nextTaskId, ranTasks, queuedAtDestroy, finalRunLog>>
gateVars == <<mPendingDocShellBlockers, mPendingDocShellIsActive,
              mPendingDocShellReceivedMessage, mPendingRenderLayers,
              mPendingRenderLayersReceivedMessage,
              mPendingLayersObserverEpoch>>
renderVars == <<mLayersObserverEpoch, visible, appliedRender, sentNoOp,
                paintLog>>
buildVars == <<debugBuild, isMiddleman, mCoalesceMouseMoveEvents>>
deliveredVars == <<requested, undelivered, unexpedited>>
wheelVars == <<mCoalescedWheelData, mLastWheelProcessedTimeFromParent,
               mLastWheelProcessingDuration, dispatchedWheel>>
keyVars == <<mRepeatedKeyEventTime, mSkipKeyPress, mIgnoreKeyPressEvent,
             handledKeys>>
unloadVars == <<mBeforeUnloadListeners, sentHasBeforeUnload>>
inputVars == <<mCoalescedMouseData, dispatchedMouse, wheelVars, drainFrames,
               keyVars, unloadVars, navigateOps>>

vars == <<lifeVars, registryVars, queueVars, gateVars, renderVars,
          deliveredVars, activeLog, inputVars, mToBeDispatchedMouseData,
          lastOp>>

\* The compositor thread is not inside GetFrom(LayersId).
CompositorIdle ==
  [pc |-> "idle", id |-> InvalidLayersId, result |-> FALSE,
   afterRemoval |-> FALSE]

MutexFree_Ignored == TRUE

\* StaticMutexAutoLock lock(sBrowserChildrenMutex) can be entered.
MutexFree == sBrowserChildrenMutex = "free"

NoOp == [op |-> "none"]

\* A CoalescedInputData object that holds no event.
EmptyData == [empty |-> TRUE]

\* ------------------------------------------------------------ construction
\* BrowserChild::BrowserChild: the member initialisers.
\* A ClientNavigateOpChild that has not been constructed.
NoNavigateOp ==
  [constructed |-> FALSE, mSerialEventTarget |-> "null",
   listener |-> "none", settles |-> 0,
   mPromise |-> [state |-> "none", value |-> "none"],
   returned |-> [state |-> "none", value |-> "none"],
   task |-> "none", mPromiseRequestHolder |-> "empty",
   replies |-> <<>>, destroyed |-> FALSE]

Init ==
  /\ debugBuild \in BOOLEAN
  /\ isMiddleman \in BOOLEAN
  /\ crashed = FALSE
  /\ initState = "none"
  /\ mIPCOpen = FALSE
  /\ mDestroyed = FALSE
  /\ actorDestroyed = FALSE
  /\ destructed = FALSE
  /\ mCoalesceMouseMoveEvents \in BOOLEAN
  /\ mCoalescedMouseEventFlusher = mCoalesceMouseMoveEvents
  /\ mLayersId = InvalidLayersId
  /\ sBrowserChildren = [alloc |-> FALSE, ids |-> {}]
  /\ sBrowserChildrenMutex = "free"
  /\ compositor = CompositorIdle
  /\ normalQueue = <<>>
  /\ inputQueue = <<>>
  /\ runnables = <<>>
  /\ deleteSent = 0
  /\ destroyCount = 0
  /\ nextTaskId = 1
  /\ ranTasks = {}
  /\ queuedAtDestroy = [normal |-> {}, input |-> {}]
  /\ finalRunLog = <<>>
  /\ mLayersObserverEpoch = InitialLayersObserverEpoch
  /\ mPendingDocShellBlockers = 0
  /\ mPendingDocShellIsActive = FALSE
  /\ mPendingDocShellReceivedMessage = FALSE
  /\ mPendingRenderLayers = FALSE
  /\ mPendingRenderLayersReceivedMessage = FALSE
  /\ mPendingLayersObserverEpoch = PendingEpochInit
  /\ visible = FALSE
  /\ appliedRender = <<>>
  /\ sentNoOp = <<>>
  /\ paintLog = <<>>
  /\ activeLog = <<>>
  /\ mCoalescedMouseData = <<>>
  /\ mToBeDispatchedMouseData = <<>>
  /\ drainFrames = <<>>
  /\ dispatchedMouse = <<>>
  /\ mCoalescedWheelData = EmptyData
  /\ mLastWheelProcessedTimeFromParent = NullTimeStamp
  /\ mLastWheelProcessingDuration = 0
  /\ dispatchedWheel = <<>>
  /\ mRepeatedKeyEventTime = NullTimeStamp
  /\ mSkipKeyPress = FALSE
  /\ mIgnoreKeyPressEvent = FALSE
  /\ handledKeys = 0
  /\ mBeforeUnloadListeners = 0
  /\ sentHasBeforeUnload = <<>>
  /\ navigateOps = [o \in 1..MaxNavigateOps |-> NoNavigateOp]
  /\ requested \in RequestSets
  /\ undelivered = DOMAIN requested
  /\ unexpedited = {e \in DOMAIN requested : requested[e]}
  /\ lastOp = NoOp

\* BrowserChild::Init: mIPCOpen is set on line 608; the session store
\* listener's Init on line 617 can still fail afterwards.
BrowserChildInit ==
  /\ ~crashed
  /\ initState = "none"
  /\ \E outcome \in {"fail_early", "fail_late", "ok"} :
       /\ initState' = IF outcome = "ok" THEN "ok" ELSE "failed"
       /\ mIPCOpen' = (outcome # "fail_early")
       /\ lastOp' = [op |-> "Init", outcome |-> outcome]
  /\ UNCHANGED <<debugBuild, isMiddleman, crashed, mDestroyed,
                 actorDestroyed, destructed, mCoalesceMouseMoveEvents,
                 mCoalescedMouseEventFlusher, registryVars, queueVars,
                 gateVars, renderVars, deliveredVars, activeLog,
                 inputVars, mToBeDispatchedMouseData>>

\* ------------------------------------------------------------- event queues
GetPriority_AlwaysNormal(runnable) == PRIORITY_NORMAL

\* DelayedDeleteRunnable::GetPriority.
GetPriority(runnable) ==
  IF runnable.mReadyToDelete THEN PRIORITY_INPUT ELSE PRIORITY_NORMAL

\* NS_DispatchToCurrentThread: the event queue asks the runnable for its
\* priority and appends it to the queue of that priority.  The result is the
\* pair <<normal queue, input queue>>.
DispatchToCurrentThread(nq, iq, task, prio) ==
  IF prio = PRIORITY_INPUT
  THEN <<nq, Append(iq, task)>>
  ELSE <<Append(nq, task), iq>>

QueueOf(prio) == IF prio = PRIORITY_INPUT THEN inputQueue ELSE normalQueue

MsgIds(q) == {q[i].id : i \in {j \in 1..Len(q) : q[j].kind = "msg"}}

\* An inbound message other than the ones modelled below arrives and is
\* queued as a task of the main thread, at normal or at input priority.
EnqueueTask ==
  /\ ~crashed
  /\ nextTaskId <= MaxTasks
  /\ \E prio \in {PRIORITY_NORMAL, PRIORITY_INPUT} :
       LET qs == DispatchToCurrentThread(normalQueue, inputQueue,
                                         [kind |-> "msg", id |-> nextTaskId],
                                         prio)
       IN /\ normalQueue' = qs[1]
          /\ inputQueue' = qs[2]
          /\ lastOp' = [op |-> "EnqueueTask", prio |-> prio]
  /\ nextTaskId' = nextTaskId + 1
  /\ UNCHANGED <<lifeVars, registryVars, runnables, deleteSent, destroyCount,
                 ranTasks, queuedAtDestroy, finalRunLog, gateVars, renderVars,
                 deliveredVars, activeLog,
                 inputVars, mToBeDispatchedMouseData>>

\* The event loop runs the task at the head of one of its two queues.
RunOpaqueTask ==
  /\ ~crashed
  /\ \E prio \in {PRIORITY_NORMAL, PRIORITY_INPUT} :
       /\ QueueOf(prio) # <<>>
       /\ Head(QueueOf(prio)).kind = "msg"
       /\ ranTasks' = ranTasks \cup {Head(QueueOf(prio)).id}
       /\ normalQueue' = IF prio = PRIORITY_NORMAL THEN Tail(normalQueue)
                                                   ELSE normalQueue
       /\ inputQueue' = IF prio = PRIORITY_INPUT THEN Tail(inputQueue)
                                                 ELSE inputQueue
       /\ lastOp' = [op |-> "RunOpaqueTask", id |-> Head(QueueOf(prio)).id]
  /\ UNCHANGED <<lifeVars, registryVars, runnables, deleteSent, destroyCount,
                 nextTaskId, queuedAtDestroy, finalRunLog, gateVars,
                 renderVars, deliveredVars, activeLog,
                 inputVars, mToBeDispatchedMouseData>>

\* The condition under which the final run sends the delete message.
ShouldSendDelete_NoOpenCheck == ~isMiddleman

ShouldSendDelete == mIPCOpen /\ ~isMiddleman

\* DelayedDeleteRunnable::Run, for the runnable at the head of a queue.
RunDelayedDelete ==
  /\ ~crashed
  /\ \E prio \in {PRIORITY_NORMAL, PRIORITY_INPUT} :
       /\ QueueOf(prio) # <<>>
       /\ Head(QueueOf(prio)).kind = "delete"
       /\ LET r == Head(QueueOf(prio)).id
              nq == IF prio = PRIORITY_NORMAL THEN Tail(normalQueue)
                                              ELSE normalQueue
              iq == IF prio = PRIORITY_INPUT THEN Tail(inputQueue)
                                             ELSE inputQueue
          IN IF ~runnables[r].mReadyToDelete
             THEN \* first pass: run again, now at input priority
                  LET ready == [runnables[r] EXCEPT !.mReadyToDelete = TRUE]
                      qs == DispatchToCurrentThread(
                              nq, iq, [kind |-> "delete", id |-> r],
                              GetPriority(ready))
                  IN /\ runnables' = [runnables EXCEPT ![r] = ready]
                     /\ normalQueue' = qs[1]
                     /\ inputQueue' = qs[2]
                     /\ lastOp' = [op |-> "DelayedDelete", r |-> r,
                                   pass |-> 1, ranAt |-> prio, sent |-> FALSE]
                     /\ UNCHANGED <<deleteSent, finalRunLog>>
             ELSE \* second pass: Send__delete__ if the channel is open
                  LET send == ShouldSendDelete
                  IN /\ deleteSent' = IF send THEN deleteSent + 1
                                              ELSE deleteSent
                     /\ runnables' =
                          [runnables EXCEPT ![r].mBrowserChild = FALSE]
                     /\ normalQueue' = nq
                     /\ inputQueue' = iq
                     /\ finalRunLog' =
                          Append(finalRunLog,
                                 [r |-> r, open |-> mIPCOpen, sent |-> send,
                                  ran |-> ranTasks])
                     /\ lastOp' = [op |-> "DelayedDelete", r |-> r,
                                   pass |-> 2, ranAt |-> prio, sent |-> send]
  /\ UNCHANGED <<lifeVars, registryVars, destroyCount, nextTaskId, ranTasks,
                 queuedAtDestroy, gateVars, renderVars, deliveredVars, activeLog,
                 inputVars, mToBeDispatchedMouseData>>

\* ----------------------------------------------------------------- teardown
Unregister_KeepsLayersId(id, reg) ==
  IF id # InvalidLayersId
  THEN LET ids == reg.ids \ {id}
       IN [fault |-> ~reg.alloc, mLayersId |-> id,
           sBrowserChildren |-> [alloc |-> ids # {}, ids |-> ids]]
  ELSE [fault |-> FALSE, mLayersId |-> id, sBrowserChildren |-> reg]

\* The last part of DestroyWindow, lines 994-1004, as a function of mLayersId
\* and the registry: with a valid id the entry is removed, the map is
\* deleted when it has become empty, and mLayersId is reset, so that a later
\* run does not enter the branch.  fault tells that the branch was entered
\* with the map deleted (the MOZ_ASSERT of line 997, a null dereference on
\* line 998).
Unregister(id, reg) ==
  IF id # InvalidLayersId
  THEN LET ids == reg.ids \ {id}
       IN [fault |-> ~reg.alloc, mLayersId |-> InvalidLayersId,
           sBrowserChildren |-> [alloc |-> ids # {}, ids |-> ids]]
  ELSE [fault |-> FALSE, mLayersId |-> id, sBrowserChildren |-> reg]

DestroyWindow_KeepsFlusher ==
  /\ mCoalescedMouseEventFlusher' = mCoalescedMouseEventFlusher
  /\ mToBeDispatchedMouseData' = <<>>
  /\ IF mLayersId # InvalidLayersId
     THEN /\ MutexFree
          /\ sBrowserChildren' =
               Unregister(mLayersId, sBrowserChildren).sBrowserChildren
          /\ mLayersId' = Unregister(mLayersId, sBrowserChildren).mLayersId
          /\ UNCHANGED <<sBrowserChildrenMutex, compositor>>
     ELSE UNCHANGED registryVars

\* BrowserChild::DestroyWindow: drops the flusher, empties the queue of mouse
\* data to dispatch and removes the registry entry of mLayersId.  The removal
\* takes sBrowserChildrenMutex and releases it within the step; the step
\* waits while the compositor thread holds the mutex.
\* sBrowserChildren is allocated whenever mLayersId is valid
\* (RegistryAllocated below), so the MOZ_ASSERT on line 997 holds.
DestroyWindow ==
  /\ mCoalescedMouseEventFlusher' = FALSE
  /\ mToBeDispatchedMouseData' = <<>>
  /\ IF mLayersId # InvalidLayersId
     THEN /\ MutexFree
          /\ sBrowserChildren' =
               Unregister(mLayersId, sBrowserChildren).sBrowserChildren
          /\ mLayersId' = Unregister(mLayersId, sBrowserChildren).mLayersId
          /\ UNCHANGED <<sBrowserChildrenMutex, compositor>>
     ELSE UNCHANGED registryVars

DestroyedAssertFails_Removed == FALSE

\* MOZ_ASSERT(mDestroyed == false) at the top of RecvDestroy; MOZ_ASSERT is
\* compiled in only in debug builds.
DestroyedAssertFails == debugBuild /\ mDestroyed

\* BrowserChild::RecvDestroy.
RecvDestroy ==
  /\ ~crashed
  /\ initState = "ok"
  /\ ~actorDestroyed
  /\ destroyCount < MaxDestroy
  /\ destroyCount' = destroyCount + 1
  /\ IF DestroyedAssertFails
     THEN /\ crashed' = TRUE
          /\ lastOp' = [op |-> "RecvDestroy", asserted |-> TRUE,
                        again |-> TRUE, removed |-> InvalidLayersId]
          /\ UNCHANGED <<mDestroyed, mCoalescedMouseEventFlusher,
                         mToBeDispatchedMouseData, registryVars, normalQueue,
                         inputQueue, runnables, queuedAtDestroy>>
     ELSE LET runnable == [mReadyToDelete |-> FALSE, mBrowserChild |-> TRUE]
              qs == DispatchToCurrentThread(
                      normalQueue, inputQueue,
                      [kind |-> "delete", id |-> Len(runnables) + 1],
                      GetPriority(runnable))
          IN /\ mDestroyed' = TRUE
             /\ DestroyWindow
             /\ runnables' = Append(runnables, runnable)
             /\ normalQueue' = qs[1]
             /\ inputQueue' = qs[2]
             /\ queuedAtDestroy' =
                  IF mDestroyed THEN queuedAtDestroy
                  ELSE [normal |-> MsgIds(normalQueue),
                        input |-> MsgIds(inputQueue)]
             /\ lastOp' = [op |-> "RecvDestroy", asserted |-> FALSE,
                           again |-> mDestroyed, removed |-> mLayersId]
             /\ UNCHANGED crashed
  /\ UNCHANGED <<buildVars, initState, mIPCOpen, actorDestroyed, destructed,
                 deleteSent,
                 nextTaskId, ranTasks, finalRunLog, gateVars, renderVars,
                 deliveredVars, activeLog, inputVars>>

\* BrowserChild::ActorDestroy, called once by the IPC layer when the channel
\* of the actor goes away.
ActorDestroy ==
  /\ ~crashed
  /\ initState # "none"
  /\ ~actorDestroyed
  /\ actorDestroyed' = TRUE
  /\ mIPCOpen' = FALSE
  /\ DestroyWindow
  /\ lastOp' = [op |-> "ActorDestroy", removed |-> mLayersId]
  /\ UNCHANGED <<buildVars, crashed, initState, mDestroyed, destructed,
                 queueVars,
                 gateVars, renderVars, deliveredVars, activeLog, inputVars>>

RegisteredAssertFails_Never(aLayersId) == FALSE

\* MOZ_ASSERT(!sBrowserChildren->Get(uint64_t(aLayersId))) in
\* InitRenderingState; MOZ_ASSERT is compiled in only in debug builds.
RegisteredAssertFails(aLayersId) ==
  debugBuild /\ aLayersId \in sBrowserChildren.ids

\* BrowserChild::~BrowserChild, which runs when the last reference to the
\* actor is released: after ActorDestroy, when the IPC layer drops its
\* reference, and after every DelayedDeleteRunnable has dropped its own.
BrowserChildDtor ==
  /\ ~crashed
  /\ actorDestroyed
  /\ ~destructed
  /\ \A i \in DOMAIN runnables : ~runnables[i].mBrowserChild
  /\ destructed' = TRUE
  /\ DestroyWindow
  /\ lastOp' = [op |-> "~BrowserChild", removed |-> mLayersId]
  /\ UNCHANGED <<buildVars, crashed, initState, mIPCOpen, mDestroyed,
                 actorDestroyed, queueVars, gateVars, renderVars,
                 deliveredVars, activeLog, inputVars>>

\* BrowserChild::RecvInitRendering -> InitRenderingState: the registration of
\* aLayersId in sBrowserChildren, under sBrowserChildrenMutex.
RecvInitRendering ==
  /\ ~crashed
  /\ initState = "ok"
  /\ ~actorDestroyed
  /\ \E aLayersId \in LayersIds, compositorChild \in BOOLEAN :
       /\ IF ~compositorChild
          THEN /\ lastOp' = [op |-> "InitRendering", id |-> aLayersId,
                             registered |-> FALSE, bridge |-> FALSE,
                             again |-> aLayersId \in sBrowserChildren.ids]
               /\ UNCHANGED <<crashed, registryVars>>
          ELSE IF RegisteredAssertFails(aLayersId)
          THEN /\ MutexFree
               /\ crashed' = TRUE
               /\ lastOp' = [op |-> "InitRendering", id |-> aLayersId,
                             registered |-> FALSE, bridge |-> TRUE,
                             again |-> TRUE]
               /\ UNCHANGED registryVars
          ELSE /\ MutexFree
               /\ sBrowserChildren' =
                    [alloc |-> TRUE,
                     ids |-> sBrowserChildren.ids \cup {aLayersId}]
               /\ mLayersId' = aLayersId
               /\ UNCHANGED <<sBrowserChildrenMutex, compositor>>
               /\ lastOp' = [op |-> "InitRendering", id |-> aLayersId,
                             registered |-> TRUE, bridge |-> TRUE,
                             again |-> aLayersId \in sBrowserChildren.ids]
               /\ UNCHANGED crashed
  /\ UNCHANGED <<buildVars, initState, mIPCOpen, mDestroyed, actorDestroyed,
                 destructed,
                 mCoalescedMouseEventFlusher, queueVars, gateVars, renderVars,
                 deliveredVars, activeLog,
                 inputVars, mToBeDispatchedMouseData>>

RegistryAllocated ==
  mLayersId # InvalidLayersId =>
    sBrowserChildren.alloc /\ mLayersId \in sBrowserChildren.ids

\* BrowserChild::GetFrom(layers::LayersId), lines 2964-2967: whether the
\* lookup returns the actor (TRUE) or null (FALSE).
GetFrom(aLayersId) ==
  sBrowserChildren.alloc /\ aLayersId \in sBrowserChildren.ids

\* The compositor thread calls GetFrom(aLayersId) and enters the
\* StaticMutexAutoLock; the call waits while the mutex is held.
\* afterRemoval tells that the step before was the teardown that removed the
\* entry of aLayersId.
GetFromLock ==
  /\ compositor.pc \in {"idle", "returned"}
  /\ MutexFree
  /\ \E aLayersId \in LayersIds :
       /\ compositor' =
            [pc |-> "locked", id |-> aLayersId, result |-> FALSE,
             afterRemoval |-> /\ lastOp.op \in {"RecvDestroy", "ActorDestroy"}
                              /\ lastOp.removed = aLayersId]
       /\ lastOp' = [op |-> "GetFromLock", id |-> aLayersId]
  /\ sBrowserChildrenMutex' = "compositor"
  /\ UNCHANGED <<lifeVars, mLayersId, sBrowserChildren, queueVars, gateVars,
                 renderVars, deliveredVars, activeLog, inputVars,
                 mToBeDispatchedMouseData>>

\* The compositor thread reads sBrowserChildren.
GetFromRead ==
  /\ compositor.pc = "locked"
  /\ compositor' = [compositor EXCEPT !.pc = "read",
                                      !.result = GetFrom(compositor.id)]
  /\ lastOp' = [op |-> "GetFromRead", id |-> compositor.id]
  /\ UNCHANGED <<lifeVars, mLayersId, sBrowserChildren, sBrowserChildrenMutex,
                 queueVars, gateVars, renderVars, deliveredVars, activeLog,
                 inputVars, mToBeDispatchedMouseData>>

\* GetFrom returns: the lock goes out of scope and the caller has the result.
GetFromUnlock ==
  /\ compositor.pc = "read"
  /\ compositor' = [compositor EXCEPT !.pc = "returned"]
  /\ sBrowserChildrenMutex' = "free"
  /\ lastOp' = [op |-> "GetFromUnlock", id |-> compositor.id]
  /\ UNCHANGED <<lifeVars, mLayersId, sBrowserChildren, queueVars, gateVars,
                 renderVars, deliveredVars, activeLog, inputVars,
                 mToBeDispatchedMouseData>>

\* ------------------------------------------------------------ render state
\* BrowserChild::IsVisible, MakeVisible and MakeHidden act on the widget's
\* visibility, which is the variable visible.
IsVisible == visible

NoOpRequest_IgnoresChannel(aForceRepaint) == ~aForceRepaint /\ IsVisible

\* The tests of lines 2484 and 2489 on an enable request: it is answered
\* with SendPaintWhileInterruptingJSNoOp, and the handler returns, only if
\* no repaint is forced, the widget is visible and the channel is open.
NoOpRequest(aForceRepaint) == ~aForceRepaint /\ IsVisible /\ mIPCOpen

ApplyRenderLayers_DuplicateApplied(aEnabled, aForceRepaint, aEpoch) ==
  IF mLayersObserverEpoch > aEpoch
  THEN UNCHANGED renderVars
  ELSE /\ mLayersObserverEpoch' = aEpoch
       /\ appliedRender' =
            Append(appliedRender, [epoch |-> aEpoch, enabled |-> aEnabled])
       /\ visible' = aEnabled
       /\ paintLog' = IF aEnabled THEN Append(paintLog, aEpoch) ELSE paintLog
       /\ UNCHANGED sentNoOp

ApplyRenderLayers_NoStaleCheck(aEnabled, aForceRepaint, aEpoch) ==
  /\ mLayersObserverEpoch' = aEpoch
  /\ appliedRender' =
       Append(appliedRender, [epoch |-> aEpoch, enabled |-> aEnabled])
  /\ visible' = aEnabled
  /\ paintLog' = IF aEnabled THEN Append(paintLog, aEpoch) ELSE paintLog
  /\ UNCHANGED sentNoOp

\* RecvRenderLayers from the epoch comparison on (lines 2448-2546): a stale
\* request is dropped, a newer one sets the epoch and then either sends the
\* no-op acknowledgement or shows / hides the widget.
ApplyRenderLayers(aEnabled, aForceRepaint, aEpoch) ==
  IF mLayersObserverEpoch >= aEpoch
  THEN UNCHANGED renderVars
  ELSE /\ mLayersObserverEpoch' = aEpoch
       /\ appliedRender' =
            Append(appliedRender, [epoch |-> aEpoch, enabled |-> aEnabled])
       /\ IF aEnabled
          THEN IF NoOpRequest(aForceRepaint)
               THEN /\ sentNoOp' = Append(sentNoOp, aEpoch)
                    /\ UNCHANGED <<visible, paintLog>>
               ELSE /\ visible' = TRUE
                    /\ paintLog' = Append(paintLog, aEpoch)
                    /\ UNCHANGED sentNoOp
          ELSE /\ visible' = FALSE
               /\ UNCHANGED <<sentNoOp, paintLog>>

\* The test that sends a request to the pending slot instead of applying it.
BlockersOutstanding == mPendingDocShellBlockers # 0

RecvRenderLayers_EpochBeforeBlockers(aEnabled, aForceRepaint, aEpoch, via) ==
  /\ lastOp' = [op |-> via, enabled |-> aEnabled, force |-> aForceRepaint,
                epoch |-> aEpoch]
  /\ IF mLayersObserverEpoch >= aEpoch
     THEN UNCHANGED <<renderVars, mPendingRenderLayersReceivedMessage,
                      mPendingRenderLayers, mPendingLayersObserverEpoch>>
     ELSE IF BlockersOutstanding
     THEN /\ mLayersObserverEpoch' = aEpoch
          /\ mPendingRenderLayersReceivedMessage' = TRUE
          /\ mPendingRenderLayers' = aEnabled
          /\ mPendingLayersObserverEpoch' = aEpoch
          /\ UNCHANGED <<visible, appliedRender, sentNoOp, paintLog>>
     ELSE /\ ApplyRenderLayers(aEnabled, aForceRepaint, aEpoch)
          /\ UNCHANGED <<mPendingRenderLayersReceivedMessage,
                         mPendingRenderLayers, mPendingLayersObserverEpoch>>

\* BrowserChild::RecvRenderLayers: with a blocker outstanding the request
\* overwrites the pending slot (lines 2441-2446), otherwise it is compared
\* with the current epoch and applied.  The mPendingDocShellBlockers counter
\* is unsigned, so "> 0" is "not zero".
RecvRenderLayers(aEnabled, aForceRepaint, aEpoch, via) ==
  /\ lastOp' = [op |-> via, enabled |-> aEnabled, force |-> aForceRepaint,
                epoch |-> aEpoch,
                applied |-> /\ ~BlockersOutstanding
                            /\ mLayersObserverEpoch < aEpoch]
  /\ IF BlockersOutstanding
     THEN /\ mPendingRenderLayersReceivedMessage' = TRUE
          /\ mPendingRenderLayers' = aEnabled
          /\ mPendingLayersObserverEpoch' = aEpoch
          /\ UNCHANGED renderVars
     ELSE /\ ApplyRenderLayers(aEnabled, aForceRepaint, aEpoch)
          /\ UNCHANGED <<mPendingRenderLayersReceivedMessage,
                         mPendingRenderLayers, mPendingLayersObserverEpoch>>

\* The RenderLayers message arriving on the PBrowser channel.
RecvRenderLayersMsg ==
  /\ ~crashed
  /\ initState = "ok"
  /\ ~actorDestroyed
  /\ \E aEnabled \in BOOLEAN, aForceRepaint \in BOOLEAN, aEpoch \in Epochs :
       RecvRenderLayers(aEnabled, aForceRepaint, aEpoch, "RecvRenderLayers")
  /\ UNCHANGED <<lifeVars, registryVars, queueVars, mPendingDocShellBlockers,
                 mPendingDocShellIsActive, mPendingDocShellReceivedMessage,
                 deliveredVars, activeLog,
                 inputVars, mToBeDispatchedMouseData>>

\* The body of BrowserChild::PaintWhileInterruptingJS: the request is dropped
\* unless the channel is open and the widget has a layer manager, else it is
\* handed to RecvRenderLayers as an enable request.
PaintWhileInterruptingJSBody_DropAdvancesEpoch(aEpoch, aForceRepaint, hasLayerManager) ==
  IF ~mIPCOpen \/ ~hasLayerManager
  THEN /\ lastOp' = [op |-> "PaintWhileInterruptingJSDropped",
                     epoch |-> aEpoch]
       /\ mLayersObserverEpoch' =
            IF mLayersObserverEpoch >= aEpoch THEN mLayersObserverEpoch
            ELSE aEpoch
       /\ UNCHANGED <<visible, appliedRender, sentNoOp, paintLog,
                      mPendingRenderLayersReceivedMessage,
                      mPendingRenderLayers, mPendingLayersObserverEpoch>>
  ELSE RecvRenderLayers(TRUE, aForceRepaint, aEpoch,
                        "PaintWhileInterruptingJS")

PaintWhileInterruptingJSBody(aEpoch, aForceRepaint, hasLayerManager) ==
  IF ~mIPCOpen \/ ~hasLayerManager
  THEN /\ lastOp' = [op |-> "PaintWhileInterruptingJSDropped",
                     epoch |-> aEpoch]
       /\ UNCHANGED <<renderVars, mPendingRenderLayersReceivedMessage,
                      mPendingRenderLayers, mPendingLayersObserverEpoch>>
  ELSE RecvRenderLayers(TRUE, aForceRepaint, aEpoch,
                        "PaintWhileInterruptingJS")

\* PaintWhileInterruptingJS called on the expedited path of the hang monitor.
PaintWhileInterruptingJS ==
  /\ ~crashed
  /\ initState = "ok"
  /\ \E aForceRepaint \in BOOLEAN, aEpoch \in Epochs,
        hasLayerManager \in BOOLEAN :
       PaintWhileInterruptingJSBody(aEpoch, aForceRepaint, hasLayerManager)
  /\ UNCHANGED <<lifeVars, registryVars, queueVars, mPendingDocShellBlockers,
                 mPendingDocShellIsActive, mPendingDocShellReceivedMessage,
                 deliveredVars, activeLog,
                 inputVars, mToBeDispatchedMouseData>>

\* One request of the set the parent makes (requested, pairwise distinct
\* epochs) reaches RecvRenderLayers, on the PBrowser channel or, for an
\* enable request, through PaintWhileInterruptingJS.
DeliverRequest ==
  /\ ~crashed
  /\ initState = "ok"
  /\ ~actorDestroyed
  /\ \E aEpoch \in undelivered, aForceRepaint \in BOOLEAN,
        expedited \in BOOLEAN :
       /\ IF expedited
          THEN /\ requested[aEpoch]
               /\ mIPCOpen
               /\ PaintWhileInterruptingJSBody(aEpoch, aForceRepaint, TRUE)
          ELSE RecvRenderLayers(requested[aEpoch], aForceRepaint, aEpoch,
                                "RecvRenderLayers")
       /\ undelivered' = undelivered \ {aEpoch}
  /\ UNCHANGED <<lifeVars, registryVars, queueVars, mPendingDocShellBlockers,
                 mPendingDocShellIsActive, mPendingDocShellReceivedMessage,
                 requested, unexpedited, activeLog,
                 inputVars, mToBeDispatchedMouseData>>

\* The smallest element of a non-empty set of epochs: the parent numbers its
\* requests in the order in which it makes them, and a channel delivers its
\* messages in the order in which they were sent.
FirstOf(S) == CHOOSE e \in S : \A f \in S : e <= f

\* The RenderLayers message of the oldest request not yet delivered on the
\* PContent channel arrives.
DeliverOnChannel ==
  /\ ~crashed
  /\ initState = "ok"
  /\ ~actorDestroyed
  /\ undelivered # {}
  /\ \E aForceRepaint \in BOOLEAN :
       LET aEpoch == FirstOf(undelivered)
       IN /\ RecvRenderLayers(requested[aEpoch], aForceRepaint, aEpoch,
                              "RecvRenderLayers")
          /\ undelivered' = undelivered \ {aEpoch}
  /\ UNCHANGED <<lifeVars, registryVars, queueVars, mPendingDocShellBlockers,
                 mPendingDocShellIsActive, mPendingDocShellReceivedMessage,
                 requested, unexpedited, activeLog,
                 inputVars, mToBeDispatchedMouseData>>

\* The copy of the oldest enable request not yet delivered on the hang
\* monitor channel arrives: PaintWhileInterruptingJS is called.
DeliverExpedited ==
  /\ ~crashed
  /\ initState = "ok"
  /\ unexpedited # {}
  /\ \E aForceRepaint \in BOOLEAN, hasLayerManager \in BOOLEAN :
       LET aEpoch == FirstOf(unexpedited)
       IN /\ PaintWhileInterruptingJSBody(aEpoch, aForceRepaint,
                                          hasLayerManager)
          /\ unexpedited' = unexpedited \ {aEpoch}
  /\ UNCHANGED <<lifeVars, registryVars, queueVars, mPendingDocShellBlockers,
                 mPendingDocShellIsActive, mPendingDocShellReceivedMessage,
                 requested, undelivered, activeLog,
                 inputVars, mToBeDispatchedMouseData>>

\* ------------------------------------------------- pending docshell blockers
\* BrowserChild::InternalSetDocShellIsActive.
InternalSetDocShellIsActive(aIsActive) ==
  activeLog' = Append(activeLog, aIsActive)

\* BrowserChild::AddPendingDocShellBlocker.
AddPendingDocShellBlocker ==
  /\ ~crashed
  /\ initState = "ok"
  /\ mPendingDocShellBlockers < MaxBlockers
  /\ mPendingDocShellBlockers' = mPendingDocShellBlockers + 1
  /\ lastOp' = [op |-> "AddBlocker"]
  /\ UNCHANGED <<lifeVars, registryVars, queueVars, mPendingDocShellIsActive,
                 mPendingDocShellReceivedMessage, mPendingRenderLayers,
                 mPendingRenderLayersReceivedMessage,
                 mPendingLayersObserverEpoch, renderVars, deliveredVars,
                 activeLog,
                 inputVars, mToBeDispatchedMouseData>>

RemoveBlockerBody_ReplaysEveryTime ==
  LET blockers == mPendingDocShellBlockers - 1
      replayActive == mPendingDocShellReceivedMessage
      replayRender == mPendingRenderLayersReceivedMessage
  IN /\ mPendingDocShellBlockers' = blockers
     /\ mPendingDocShellReceivedMessage' = FALSE
     /\ IF replayActive
        THEN InternalSetDocShellIsActive(mPendingDocShellIsActive)
        ELSE UNCHANGED activeLog
     /\ mPendingRenderLayersReceivedMessage' = FALSE
     /\ IF replayRender
        THEN ApplyRenderLayers(mPendingRenderLayers, FALSE,
                               mPendingLayersObserverEpoch)
        ELSE UNCHANGED renderVars
     /\ lastOp' = [op |-> "RemoveBlocker", replayActive |-> replayActive,
                   replayRender |-> replayRender]
     /\ UNCHANGED <<mPendingDocShellIsActive, mPendingRenderLayers,
                    mPendingLayersObserverEpoch>>

RemoveBlockerBody_OneKindOnly ==
  LET blockers == mPendingDocShellBlockers - 1
      replayActive == blockers = 0 /\ mPendingDocShellReceivedMessage
      replayRender == /\ blockers = 0
                      /\ mPendingRenderLayersReceivedMessage
                      /\ ~replayActive
  IN /\ mPendingDocShellBlockers' = blockers
     /\ mPendingDocShellReceivedMessage' =
          IF replayActive THEN FALSE ELSE mPendingDocShellReceivedMessage
     /\ IF replayActive
        THEN InternalSetDocShellIsActive(mPendingDocShellIsActive)
        ELSE UNCHANGED activeLog
     /\ mPendingRenderLayersReceivedMessage' =
          IF blockers = 0 THEN FALSE ELSE mPendingRenderLayersReceivedMessage
     /\ IF replayRender
        THEN ApplyRenderLayers(mPendingRenderLayers, FALSE,
                               mPendingLayersObserverEpoch)
        ELSE UNCHANGED renderVars
     /\ lastOp' = [op |-> "RemoveBlocker", replayActive |-> replayActive,
                   replayRender |-> replayRender]
     /\ UNCHANGED <<mPendingDocShellIsActive, mPendingRenderLayers,
                    mPendingLayersObserverEpoch>>

\* The body of BrowserChild::RemovePendingDocShellBlocker: the decrement and,
\* at zero, the replay of the queued activation and of the queued render
\* request (the latter with aForceRepaint = false).
ReplayForceRepaint_True == TRUE

\* RecvRenderLayers(mPendingRenderLayers, false /* aForceRepaint */, ...)
ReplayForceRepaint == FALSE

RemoveBlockerBody ==
  LET blockers == mPendingDocShellBlockers - 1
      replayActive == blockers = 0 /\ mPendingDocShellReceivedMessage
      replayRender == blockers = 0 /\ mPendingRenderLayersReceivedMessage
  IN /\ mPendingDocShellBlockers' = blockers
     /\ mPendingDocShellReceivedMessage' =
          IF replayActive THEN FALSE ELSE mPendingDocShellReceivedMessage
     /\ IF replayActive
        THEN InternalSetDocShellIsActive(mPendingDocShellIsActive)
        ELSE UNCHANGED activeLog
     /\ mPendingRenderLayersReceivedMessage' =
          IF replayRender THEN FALSE ELSE mPendingRenderLayersReceivedMessage
     /\ IF replayRender
        THEN ApplyRenderLayers(mPendingRenderLayers, ReplayForceRepaint,
                               mPendingLayersObserverEpoch)
        ELSE UNCHANGED renderVars
     /\ lastOp' = [op |-> "RemoveBlocker", replayActive |-> replayActive,
                   replayRender |-> replayRender]
     /\ UNCHANGED <<mPendingDocShellIsActive, mPendingRenderLayers,
                    mPendingLayersObserverEpoch>>

\* RemovePendingDocShellBlocker, called to release a blocker that was added.
RemovePendingDocShellBlocker ==
  /\ ~crashed
  /\ initState = "ok"
  /\ mPendingDocShellBlockers > 0
  /\ RemoveBlockerBody
  /\ UNCHANGED <<lifeVars, registryVars, queueVars, deliveredVars,
                 inputVars, mToBeDispatchedMouseData>>

\* mPendingDocShellBlockers is a uint32_t.  The model keeps its 32 bits as a
\* two's complement integer, so the decrement of zero leaves -1, which stands
\* for 4294967295; UInt32Limbs gives the unsigned value of such an integer
\* as its two 16-bit halves, the value being hi * 65536 + lo.
UInt32Limbs_Signed(c) == [hi |-> c \div 65536, lo |-> c % 65536]

UInt32Limbs(c) ==
  LET low31 == IF c >= 0 THEN c ELSE (c + 2147483647) + 1
  IN [hi |-> (low31 \div 65536) + (IF c < 0 THEN 32768 ELSE 0),
      lo |-> low31 % 65536]

\* RemovePendingDocShellBlocker called with no blocker to release: the
\* decrement wraps around.  No caller in these sources does this; the action
\* stands for a release that does not match an AddPendingDocShellBlocker.
RemovePendingDocShellBlockerUnpaired ==
  /\ ~crashed
  /\ initState = "ok"
  /\ mPendingDocShellBlockers <= 0
  /\ mPendingDocShellBlockers > -MaxUnpaired
  /\ RemoveBlockerBody
  /\ UNCHANGED <<lifeVars, registryVars, queueVars, deliveredVars,
                 inputVars, mToBeDispatchedMouseData>>

RecvSetDocShellIsActive_AppliesWhileBlocked ==
  /\ ~crashed
  /\ initState = "ok"
  /\ ~actorDestroyed
  /\ Len(activeLog) < MaxActiveLog
  /\ \E aIsActive \in BOOLEAN :
       /\ lastOp' = [op |-> "RecvSetDocShellIsActive", active |-> aIsActive,
                     blocked |-> BlockersOutstanding]
       /\ InternalSetDocShellIsActive(aIsActive)
       /\ IF BlockersOutstanding
          THEN /\ mPendingDocShellReceivedMessage' = TRUE
               /\ mPendingDocShellIsActive' = aIsActive
          ELSE UNCHANGED <<mPendingDocShellReceivedMessage,
                           mPendingDocShellIsActive>>
  /\ UNCHANGED <<lifeVars, registryVars, queueVars, mPendingDocShellBlockers,
                 mPendingRenderLayers, mPendingRenderLayersReceivedMessage,
                 mPendingLayersObserverEpoch, renderVars, deliveredVars,
                 inputVars, mToBeDispatchedMouseData>>

\* BrowserChild::RecvSetDocShellIsActive.
RecvSetDocShellIsActive ==
  /\ ~crashed
  /\ initState = "ok"
  /\ ~actorDestroyed
  /\ Len(activeLog) < MaxActiveLog
  /\ \E aIsActive \in BOOLEAN :
       /\ lastOp' = [op |-> "RecvSetDocShellIsActive", active |-> aIsActive,
                     blocked |-> BlockersOutstanding]
       /\ IF BlockersOutstanding
          THEN /\ mPendingDocShellReceivedMessage' = TRUE
               /\ mPendingDocShellIsActive' = aIsActive
               /\ UNCHANGED activeLog
          ELSE /\ InternalSetDocShellIsActive(aIsActive)
               /\ UNCHANGED <<mPendingDocShellReceivedMessage,
                              mPendingDocShellIsActive>>
  /\ UNCHANGED <<lifeVars, registryVars, queueVars, mPendingDocShellBlockers,
                 mPendingRenderLayers, mPendingRenderLayersReceivedMessage,
                 mPendingLayersObserverEpoch, renderVars, deliveredVars,
                 inputVars, mToBeDispatchedMouseData>>

\* --------------------------------------------------------- mouse coalescing
PointerIds == 1..MaxPointerId
Payloads == 1..MaxPayload

\* The mouse events the parent sends: a message kind, the pointer identity,
\* the position, and the class of modifiers and buttons that decides whether
\* two moves can be merged.
MouseEvents ==
  [message : {"eMouseMove", "eMouseDown"}, pointerId : PointerIds,
   pos : Payloads, compat : Payloads]

\* CoalescedMouseData::CanCoalesce: an empty record takes any move, a record
\* that holds a move takes a move of the same compatibility class.
CanCoalesce(data, aEvent, aInputBlockId) ==
  data.empty \/ data.event.compat = aEvent.compat

Coalesce_KeepsFirst(data, aEvent, aInputBlockId) ==
  IF data.empty
  THEN [empty |-> FALSE, event |-> aEvent, blockId |-> aInputBlockId]
  ELSE data

\* CoalescedMouseData::Coalesce: the record carries the latest event and the
\* latest input block id.
Coalesce(data, aEvent, aInputBlockId) ==
  [empty |-> FALSE, event |-> aEvent, blockId |-> aInputBlockId]

\* BrowserChild::HandleRealMouseButtonEvent: the event goes to content.
HandleRealMouseButtonEvent(log, aEvent, aInputBlockId) ==
  Append(log, [event |-> aEvent, blockId |-> aInputBlockId])

RECURSIVE DrainMouseData(_, _)
\* The loop of ProcessPendingCoalescedMouseDataAndDispatchEvents: pops the
\* front of the queue and dispatches its event until the queue is empty.
DrainMouseData(queue, log) ==
  IF queue = <<>> THEN log
  ELSE DrainMouseData(
         Tail(queue),
         IF Head(queue).empty THEN log
         ELSE HandleRealMouseButtonEvent(log, Head(queue).event,
                                         Head(queue).blockId))

\* The test on entry of the coalescing paths: the preference is on and the
\* flusher still exists (it is dropped by DestroyWindow).
CoalescingActive == mCoalesceMouseMoveEvents /\ mCoalescedMouseEventFlusher

FlushOrders_FirstOnly ==
  LET full == {p \in DOMAIN mCoalescedMouseData :
                 ~mCoalescedMouseData[p].empty}
      n == IF full = {} THEN 0 ELSE 1
  IN [1..n -> full]

\* The orders in which an iteration over mCoalescedMouseData can visit the
\* records that hold an event (the hash table fixes no order).
FlushOrders ==
  LET full == {p \in DOMAIN mCoalescedMouseData :
                 ~mCoalescedMouseData[p].empty}
  IN {o \in [1..Cardinality(full) -> full] :
        \A i, j \in 1..Cardinality(full) : o[i] = o[j] => i = j}

RealMouseButtonEventBody_ButtonFirst(aEvent, aInputBlockId) ==
  IF CoalescingActive /\ aEvent.message # "eMouseMove"
  THEN \E order \in FlushOrders :
         LET flushed == [i \in DOMAIN order |-> mCoalescedMouseData[order[i]]]
             queue == <<Coalesce(EmptyData, aEvent, aInputBlockId)>>
                        \o mToBeDispatchedMouseData \o flushed
         IN /\ mCoalescedMouseData' = <<>>
            /\ dispatchedMouse' = DrainMouseData(queue, dispatchedMouse)
            /\ mToBeDispatchedMouseData' = <<>>
  ELSE /\ dispatchedMouse' =
            HandleRealMouseButtonEvent(dispatchedMouse, aEvent, aInputBlockId)
       /\ UNCHANGED <<mCoalescedMouseData, mToBeDispatchedMouseData>>

\* BrowserChild::RecvRealMouseButtonEvent.
RealMouseButtonEventBody(aEvent, aInputBlockId) ==
  IF CoalescingActive /\ aEvent.message # "eMouseMove"
  THEN \E order \in FlushOrders :
         LET flushed == [i \in DOMAIN order |-> mCoalescedMouseData[order[i]]]
             queue == Append(mToBeDispatchedMouseData \o flushed,
                             Coalesce(EmptyData, aEvent, aInputBlockId))
         IN /\ mCoalescedMouseData' = <<>>
            /\ dispatchedMouse' = DrainMouseData(queue, dispatchedMouse)
            /\ mToBeDispatchedMouseData' = <<>>
  ELSE /\ dispatchedMouse' =
            HandleRealMouseButtonEvent(dispatchedMouse, aEvent, aInputBlockId)
       /\ UNCHANGED <<mCoalescedMouseData, mToBeDispatchedMouseData>>

RealMouseMoveEventBody_DispatchesNewMove(aEvent, aInputBlockId) ==
  IF CoalescingActive
  THEN LET p == aEvent.pointerId
           data == IF p \in DOMAIN mCoalescedMouseData
                   THEN mCoalescedMouseData[p] ELSE EmptyData
       IN IF CanCoalesce(data, aEvent, aInputBlockId)
          THEN /\ mCoalescedMouseData' =
                    [q \in DOMAIN mCoalescedMouseData \cup {p} |->
                       IF q = p THEN Coalesce(data, aEvent, aInputBlockId)
                       ELSE mCoalescedMouseData[q]]
               /\ UNCHANGED <<mToBeDispatchedMouseData, dispatchedMouse>>
          ELSE /\ mCoalescedMouseData' =
                    [mCoalescedMouseData EXCEPT ![p] = EmptyData]
               /\ dispatchedMouse' =
                    DrainMouseData(
                      mToBeDispatchedMouseData
                        \o <<data, Coalesce(EmptyData, aEvent, aInputBlockId)>>,
                      dispatchedMouse)
               /\ mToBeDispatchedMouseData' = <<>>
  ELSE RealMouseButtonEventBody(aEvent, aInputBlockId)

\* BrowserChild::RecvRealMouseMoveEvent.
RealMouseMoveEventBody(aEvent, aInputBlockId) ==
  IF CoalescingActive
  THEN LET p == aEvent.pointerId
           data == IF p \in DOMAIN mCoalescedMouseData
                   THEN mCoalescedMouseData[p] ELSE EmptyData
       IN IF CanCoalesce(data, aEvent, aInputBlockId)
          THEN /\ mCoalescedMouseData' =
                    [q \in DOMAIN mCoalescedMouseData \cup {p} |->
                       IF q = p THEN Coalesce(data, aEvent, aInputBlockId)
                       ELSE mCoalescedMouseData[q]]
               /\ UNCHANGED <<mToBeDispatchedMouseData, dispatchedMouse>>
          ELSE /\ mCoalescedMouseData' =
                    [mCoalescedMouseData EXCEPT
                       ![p] = Coalesce(EmptyData, aEvent, aInputBlockId)]
               /\ dispatchedMouse' =
                    DrainMouseData(Append(mToBeDispatchedMouseData, data),
                                   dispatchedMouse)
               /\ mToBeDispatchedMouseData' = <<>>
  ELSE RealMouseButtonEventBody(aEvent, aInputBlockId)

\* The RealMouseMoveEvent message.
RecvRealMouseMoveEvent ==
  /\ ~crashed
  /\ initState = "ok"
  /\ ~actorDestroyed
  /\ Len(dispatchedMouse) < MaxMouseEvents
  /\ \E aEvent \in MouseEvents, aInputBlockId \in Payloads :
       /\ aEvent.message = "eMouseMove"
       /\ RealMouseMoveEventBody(aEvent, aInputBlockId)
       /\ lastOp' = [op |-> "RecvRealMouseMoveEvent", event |-> aEvent,
                     blockId |-> aInputBlockId,
                     merged |-> /\ CoalescingActive
                                /\ aEvent.pointerId
                                     \in DOMAIN mCoalescedMouseData
                                /\ CanCoalesce(
                                     mCoalescedMouseData[aEvent.pointerId],
                                     aEvent, aInputBlockId)]
  /\ UNCHANGED <<lifeVars, registryVars, queueVars, gateVars, renderVars,
                 deliveredVars, activeLog, wheelVars, drainFrames, keyVars, unloadVars, navigateOps>>

\* The RealMouseButtonEvent message.
RecvRealMouseButtonEvent ==
  /\ ~crashed
  /\ initState = "ok"
  /\ ~actorDestroyed
  /\ Len(dispatchedMouse) < MaxMouseEvents
  /\ \E aEvent \in MouseEvents, aInputBlockId \in Payloads :
       /\ aEvent.message = "eMouseDown"
       /\ RealMouseButtonEventBody(aEvent, aInputBlockId)
       /\ lastOp' = [op |-> "RecvRealMouseButtonEvent", event |-> aEvent,
                     blockId |-> aInputBlockId]
  /\ UNCHANGED <<lifeVars, registryVars, queueVars, gateVars, renderVars,
                 deliveredVars, activeLog, wheelVars, drainFrames, keyVars, unloadVars, navigateOps>>

\* ------------------------------------------------ dispatching, step by step
\* HandleRealMouseButtonEvent can spin a nested event loop, which delivers
\* further messages before the loop of
\* ProcessPendingCoalescedMouseDataAndDispatchEvents takes its next item.
\* The actions below split the two mouse handlers at that call: the part up
\* to the call of ProcessPending..., and one iteration of its loop.

\* The operations that end at the call of ProcessPending...
EnterOps == {"RecvRealMouseMoveEventEnter", "RecvRealMouseButtonEventEnter"}

\* The handler that ran last has pushed to mToBeDispatchedMouseData and
\* stands at its call of ProcessPending...: the loop takes the front of the
\* queue before any other message can be delivered.
AtProcessCall == lastOp.op \in EnterOps /\ lastOp.pushed

\* A message is delivered while the queue holds data: the delivery happens
\* in an event loop nested in a dispatch.
InNestedLoop == mToBeDispatchedMouseData # <<>>

\* The mouse events the actor has taken and that were not merged away.
MouseEventsHeld ==
  Len(dispatchedMouse) + Len(mToBeDispatchedMouseData)
    + Cardinality({p \in DOMAIN mCoalescedMouseData :
                     ~mCoalescedMouseData[p].empty})

PopFront_Back(queue) ==
  [item |-> queue[Len(queue)], rest |-> SubSeq(queue, 1, Len(queue) - 1)]

\* nsDeque::PopFront.
PopFront(queue) == [item |-> Head(queue), rest |-> Tail(queue)]

\* RecvRealMouseMoveEvent with coalescing active, up to its call of
\* ProcessPending...: the move is merged, or the record of its pointer is
\* pushed to the queue and replaced by a record that holds the move.
\* The call of ProcessPendingCoalescedMouseDataAndDispatchEvents made by a
\* handler that has just pushed: a new innermost frame.  A frame records
\* the size of the queue when its loop started, the number of items it has
\* popped, and whether a handler nested in one of its dispatches pushed.
EnterDrain(frames, size) ==
  Append([i \in DOMAIN frames |-> [frames[i] EXCEPT !.appended = TRUE]],
         [entrySize |-> size, popped |-> 0, appended |-> FALSE])

DrainContinues_LengthUpFront(queue, frame) == frame.popped < frame.entrySize

\* while (mToBeDispatchedMouseData.GetSize() > 0)
DrainContinues(queue, frame) == Len(queue) > 0

RecvRealMouseMoveEventEnter ==
  /\ ~crashed
  /\ initState = "ok"
  /\ ~actorDestroyed
  /\ CoalescingActive
  /\ ~AtProcessCall
  /\ MouseEventsHeld < MaxHeld
  /\ \E aEvent \in MouseEvents, aInputBlockId \in Payloads :
       LET p == aEvent.pointerId
           data == IF p \in DOMAIN mCoalescedMouseData
                   THEN mCoalescedMouseData[p] ELSE EmptyData
           merge == CanCoalesce(data, aEvent, aInputBlockId)
       IN /\ aEvent.message = "eMouseMove"
          /\ IF merge
             THEN /\ mCoalescedMouseData' =
                       [q \in DOMAIN mCoalescedMouseData \cup {p} |->
                          IF q = p THEN Coalesce(data, aEvent, aInputBlockId)
                          ELSE mCoalescedMouseData[q]]
                  /\ UNCHANGED <<mToBeDispatchedMouseData, drainFrames>>
             ELSE /\ mCoalescedMouseData' =
                       [mCoalescedMouseData EXCEPT
                          ![p] = Coalesce(EmptyData, aEvent, aInputBlockId)]
                  /\ mToBeDispatchedMouseData' =
                       Append(mToBeDispatchedMouseData, data)
                  /\ drainFrames' =
                       EnterDrain(drainFrames,
                                  Len(mToBeDispatchedMouseData) + 1)
          /\ lastOp' = [op |-> "RecvRealMouseMoveEventEnter",
                        event |-> aEvent, blockId |-> aInputBlockId,
                        pushed |-> ~merge, nested |-> InNestedLoop]
  /\ UNCHANGED <<lifeVars, registryVars, queueVars, gateVars, renderVars,
                 deliveredVars, activeLog, dispatchedMouse, wheelVars,
                 keyVars, unloadVars, navigateOps>>

\* RecvRealMouseButtonEvent with coalescing active, up to its call of
\* ProcessPending...: every record is flushed to the queue and the button
\* event is pushed behind them.
RecvRealMouseButtonEventEnter ==
  /\ ~crashed
  /\ initState = "ok"
  /\ ~actorDestroyed
  /\ CoalescingActive
  /\ ~AtProcessCall
  /\ MouseEventsHeld < MaxHeld
  /\ \E aEvent \in MouseEvents, aInputBlockId \in Payloads,
        order \in FlushOrders :
       LET flushed == [i \in DOMAIN order |-> mCoalescedMouseData[order[i]]]
       IN /\ aEvent.message = "eMouseDown"
          /\ mCoalescedMouseData' = <<>>
          /\ mToBeDispatchedMouseData' =
               Append(mToBeDispatchedMouseData \o flushed,
                      Coalesce(EmptyData, aEvent, aInputBlockId))
          /\ drainFrames' =
               EnterDrain(drainFrames,
                          Len(mToBeDispatchedMouseData) + Len(flushed) + 1)
          /\ lastOp' = [op |-> "RecvRealMouseButtonEventEnter",
                        event |-> aEvent, blockId |-> aInputBlockId,
                        pushed |-> TRUE, nested |-> InNestedLoop]
  /\ UNCHANGED <<lifeVars, registryVars, queueVars, gateVars, renderVars,
                 deliveredVars, activeLog, dispatchedMouse, wheelVars,
                 keyVars, unloadVars, navigateOps>>

\* One iteration of the loop of ProcessPending...: the front of the queue is
\* taken and its event is handed to HandleRealMouseButtonEvent.  afterNested
\* tells that the queue was pushed to from a nested event loop since it was
\* last empty.
DispatchNext ==
  /\ ~crashed
  /\ drainFrames # <<>>
  /\ DrainContinues(mToBeDispatchedMouseData,
                    drainFrames[Len(drainFrames)])
  /\ drainFrames' =
       [drainFrames EXCEPT ![Len(drainFrames)].popped = @ + 1]
  /\ IF mToBeDispatchedMouseData = <<>>
     THEN \* PopFront() of an empty deque is a null pointer, and
          \* data->TakeCoalescedEvent() dereferences it
          /\ crashed' = TRUE
          /\ lastOp' = [op |-> "DispatchNext", item |-> EmptyData,
                        afterNested |-> FALSE]
          /\ UNCHANGED <<mToBeDispatchedMouseData, dispatchedMouse>>
     ELSE LET front == PopFront(mToBeDispatchedMouseData)
          IN /\ mToBeDispatchedMouseData' = front.rest
             /\ dispatchedMouse' =
                  IF front.item.empty THEN dispatchedMouse
                  ELSE HandleRealMouseButtonEvent(dispatchedMouse,
                                                  front.item.event,
                                                  front.item.blockId)
             /\ lastOp' = [op |-> "DispatchNext", item |-> front.item,
                           afterNested |->
                             IF lastOp.op \in EnterOps
                             THEN lastOp.pushed /\ lastOp.nested
                             ELSE /\ lastOp.op = "DispatchNext"
                                  /\ lastOp.afterNested]
             /\ UNCHANGED crashed
  /\ UNCHANGED <<debugBuild, isMiddleman, initState, mIPCOpen, mDestroyed,
                 actorDestroyed, destructed, mCoalesceMouseMoveEvents,
                 mCoalescedMouseEventFlusher, registryVars, queueVars,
                 gateVars, renderVars, deliveredVars, activeLog,
                 mCoalescedMouseData, wheelVars, keyVars, unloadVars, navigateOps>>

\* The loop of the innermost call finds its condition false and the call
\* returns to the handler that made it.
DrainReturn ==
  /\ ~crashed
  /\ drainFrames # <<>>
  /\ ~DrainContinues(mToBeDispatchedMouseData,
                     drainFrames[Len(drainFrames)])
  /\ drainFrames' = SubSeq(drainFrames, 1, Len(drainFrames) - 1)
  /\ lastOp' = [op |-> "DrainReturn",
                frame |-> drainFrames[Len(drainFrames)]]
  /\ UNCHANGED <<lifeVars, registryVars, queueVars, gateVars, renderVars,
                 deliveredVars, activeLog, mCoalescedMouseData,
                 mToBeDispatchedMouseData, dispatchedMouse, wheelVars,
                 keyVars, unloadVars, navigateOps>>

\* --------------------------------------------------------- wheel coalescing
\* The wheel events the parent sends: eWheel or one of the two markers of a
\* wheel operation, a timestamp and the compatibility class.
WheelEvents ==
  [message : {"eWheel", "eWheelOperationStart", "eWheelOperationEnd"},
   time : 1..MaxTime, compat : Payloads]

\* CoalescedWheelData::CanCoalesce.
CanCoalesceWheel(data, aEvent) ==
  data.empty \/ data.event.compat = aEvent.compat

ShouldCoalesceWheel_NoTimeCheck(aEvent, nextIsWheel) ==
  /\ aEvent.message = "eWheel"
  /\ mLastWheelProcessedTimeFromParent # NullTimeStamp
  /\ nextIsWheel
  /\ CanCoalesceWheel(mCoalescedWheelData, aEvent)

ShouldCoalesceWheel_NoPeek(aEvent, nextIsWheel) ==
  /\ aEvent.message = "eWheel"
  /\ mLastWheelProcessedTimeFromParent # NullTimeStamp
  /\ aEvent.time <
       mLastWheelProcessedTimeFromParent + mLastWheelProcessingDuration
  /\ CanCoalesceWheel(mCoalescedWheelData, aEvent)

\* BrowserChild::MaybeCoalesceWheelEvent: whether the event is merged into
\* mCoalescedWheelData; nextIsWheel is what the peek at the channel finds.
ShouldCoalesceWheel(aEvent, nextIsWheel) ==
  /\ aEvent.message = "eWheel"
  /\ mLastWheelProcessedTimeFromParent # NullTimeStamp
  /\ nextIsWheel
  /\ aEvent.time <
       mLastWheelProcessedTimeFromParent + mLastWheelProcessingDuration
  /\ CanCoalesceWheel(mCoalescedWheelData, aEvent)

PeekMessages_AnyMessage(aEvent, peek) == peek

\* The value of *aIsNextWheelEvent after MaybeCoalesceWheelEvent: the channel
\* is peeked only for an eWheel event; peek is whether a MouseWheelEvent
\* message is at the front of the channel.
PeekMessages(aEvent, peek) == aEvent.message = "eWheel" /\ peek

LastWheelEventTime_Kept(marker) == marker

\* mLastWheelProcessedTimeFromParent = TimeStamp(): the null moment.
LastWheelEventTime(marker) == NullTimeStamp

DispatchPendingAndEvent_EventFirst(aEvent) ==
  /\ dispatchedWheel' =
       Append(dispatchedWheel, aEvent)
         \o (IF mCoalescedWheelData.empty THEN <<>>
             ELSE <<mCoalescedWheelData.event>>)
  /\ mCoalescedWheelData' = EmptyData

\* MaybeDispatchCoalescedWheelEvent followed by DispatchWheelEvent.
DispatchPendingAndEvent(aEvent) ==
  /\ dispatchedWheel' =
       (IF mCoalescedWheelData.empty THEN dispatchedWheel
        ELSE Append(dispatchedWheel, mCoalescedWheelData.event))
       \o <<aEvent>>
  /\ mCoalescedWheelData' = EmptyData

\* BrowserChild::RecvMouseWheelEvent.  The peek sets isNextWheelEvent only
\* for an eWheel event; duration is the measured time of the dispatch.
RecvMouseWheelEvent ==
  /\ ~crashed
  /\ initState = "ok"
  /\ ~actorDestroyed
  /\ Len(dispatchedWheel) < MaxWheelEvents
  /\ \E aEvent \in WheelEvents, peek \in BOOLEAN, duration \in 0..MaxDuration :
       LET isNextWheelEvent == PeekMessages(aEvent, peek)
       IN /\ lastOp' = [op |-> "RecvMouseWheelEvent", event |-> aEvent,
                        next |-> isNextWheelEvent, peek |-> peek,
                        wasNull |-> mLastWheelProcessedTimeFromParent
                                      = NullTimeStamp]
          /\ IF ShouldCoalesceWheel(aEvent, isNextWheelEvent)
             THEN /\ mCoalescedWheelData' = [empty |-> FALSE, event |-> aEvent]
                  /\ UNCHANGED <<mLastWheelProcessedTimeFromParent,
                                 mLastWheelProcessingDuration, dispatchedWheel>>
             ELSE IF isNextWheelEvent
             THEN /\ DispatchPendingAndEvent(aEvent)
                  /\ mLastWheelProcessingDuration' = duration
                  /\ mLastWheelProcessedTimeFromParent' =
                       aEvent.time + duration
             ELSE /\ DispatchPendingAndEvent(aEvent)
                  /\ mLastWheelProcessedTimeFromParent' =
                       LastWheelEventTime(mLastWheelProcessedTimeFromParent)
                  /\ UNCHANGED mLastWheelProcessingDuration
  /\ UNCHANGED <<lifeVars, registryVars, queueVars, gateVars, renderVars,
                 deliveredVars, activeLog, mCoalescedMouseData,
                 dispatchedMouse, mToBeDispatchedMouseData, drainFrames,
                 keyVars, unloadVars, navigateOps>>

\* ---------------------------------------------------------- repeated keys
KeyEvents ==
  [message : {"eKeyDown", "eKeyPress", "eKeyUp"}, time : 1..MaxTime,
   isRepeat : BOOLEAN, canSkip : BOOLEAN]

\* WidgetKeyboardEvent::CanSkipInRemoteProcess: an attribute of the event.
CanSkipInRemoteProcess(aEvent) == aEvent.canSkip

SkipRepeatedKeyEvent_KeepsSkipKeyPress(aEvent, time, skipKeyPress) ==
  IF \/ time = NullTimeStamp
     \/ ~CanSkipInRemoteProcess(aEvent)
     \/ aEvent.message \notin {"eKeyDown", "eKeyPress"}
  THEN [skip |-> FALSE, mRepeatedKeyEventTime |-> NullTimeStamp,
        mSkipKeyPress |-> FALSE]
  ELSE IF \/ (aEvent.message = "eKeyDown" /\ time > aEvent.time)
          \/ (skipKeyPress /\ aEvent.message = "eKeyPress")
  THEN [skip |-> TRUE, mRepeatedKeyEventTime |-> time,
        mSkipKeyPress |-> skipKeyPress \/ aEvent.message = "eKeyDown"]
  ELSE IF aEvent.message = "eKeyDown"
  THEN [skip |-> FALSE, mRepeatedKeyEventTime |-> NullTimeStamp,
        mSkipKeyPress |-> skipKeyPress]
  ELSE [skip |-> FALSE, mRepeatedKeyEventTime |-> time,
        mSkipKeyPress |-> skipKeyPress]

\* BrowserChild::SkipRepeatedKeyEvent: whether the event is skipped, and the
\* values it leaves in mRepeatedKeyEventTime and mSkipKeyPress.
SkipRepeatedKeyEvent(aEvent, time, skipKeyPress) ==
  IF \/ time = NullTimeStamp
     \/ ~CanSkipInRemoteProcess(aEvent)
     \/ aEvent.message \notin {"eKeyDown", "eKeyPress"}
  THEN [skip |-> FALSE, mRepeatedKeyEventTime |-> NullTimeStamp,
        mSkipKeyPress |-> FALSE]
  ELSE IF \/ (aEvent.message = "eKeyDown" /\ time > aEvent.time)
          \/ (skipKeyPress /\ aEvent.message = "eKeyPress")
  THEN [skip |-> TRUE, mRepeatedKeyEventTime |-> time,
        mSkipKeyPress |-> skipKeyPress \/ aEvent.message = "eKeyDown"]
  ELSE IF aEvent.message = "eKeyDown"
  THEN [skip |-> FALSE, mRepeatedKeyEventTime |-> NullTimeStamp,
        mSkipKeyPress |-> FALSE]
  ELSE [skip |-> FALSE, mRepeatedKeyEventTime |-> time,
        mSkipKeyPress |-> skipKeyPress]

\* BrowserChild::UpdateRepeatedKeyEventEndTime; now is TimeStamp::Now().
UpdateRepeatedKeyEventEndTime(aEvent, time, now) ==
  IF aEvent.isRepeat /\ aEvent.message \in {"eKeyDown", "eKeyPress"}
  THEN now ELSE time

\* BrowserChild::RecvRealKeyEvent.  now is the clock when the dispatch
\* returns, not earlier than the timestamp of the event; consumed is whether
\* the dispatch returned nsEventStatus_eConsumeNoDefault.
RecvRealKeyEvent ==
  /\ ~crashed
  /\ initState = "ok"
  /\ ~actorDestroyed
  /\ handledKeys < MaxKeyEvents
  /\ handledKeys' = handledKeys + 1
  /\ \E aEvent \in KeyEvents, now \in 1..MaxTime, consumed \in BOOLEAN :
       LET r == SkipRepeatedKeyEvent(aEvent, mRepeatedKeyEventTime,
                                     mSkipKeyPress)
           ignored == aEvent.message = "eKeyPress" /\ mIgnoreKeyPressEvent
       IN /\ now >= aEvent.time
          /\ mSkipKeyPress' = r.mSkipKeyPress
          /\ mRepeatedKeyEventTime' =
               IF r.skip \/ ignored THEN r.mRepeatedKeyEventTime
               ELSE UpdateRepeatedKeyEventEndTime(
                      aEvent, r.mRepeatedKeyEventTime, now)
          /\ mIgnoreKeyPressEvent' =
               IF ~r.skip /\ aEvent.message = "eKeyDown" THEN consumed
               ELSE mIgnoreKeyPressEvent
          /\ lastOp' = [op |-> "RecvRealKeyEvent", event |-> aEvent,
                        skipped |-> r.skip,
                        dispatched |-> ~r.skip /\ ~ignored,
                        timeAfterSkip |-> r.mRepeatedKeyEventTime,
                        now |-> now]
  /\ UNCHANGED <<lifeVars, registryVars, queueVars, gateVars, renderVars,
                 deliveredVars, activeLog, mCoalescedMouseData,
                 dispatchedMouse, wheelVars, drainFrames,
                 mToBeDispatchedMouseData, unloadVars, navigateOps>>

\* ------------------------------------------------- beforeunload listeners
ShouldNotifyBeforeUnload_EveryChange(listeners) == mIPCOpen

\* if (mBeforeUnloadListeners == 0 && IPCOpen())
ShouldNotifyBeforeUnload(listeners) == listeners = 0 /\ mIPCOpen

\* BrowserChild::BeforeUnloadAdded, called by the window when a beforeunload
\* listener is added.
BeforeUnloadAdded ==
  /\ ~crashed
  /\ initState = "ok"
  /\ ~destructed
  /\ mBeforeUnloadListeners < MaxBeforeUnloadListeners
  /\ Len(sentHasBeforeUnload) < MaxBeforeUnloadMessages
  /\ sentHasBeforeUnload' =
       IF ShouldNotifyBeforeUnload(mBeforeUnloadListeners)
       THEN Append(sentHasBeforeUnload, TRUE) ELSE sentHasBeforeUnload
  /\ mBeforeUnloadListeners' = mBeforeUnloadListeners + 1
  /\ lastOp' = [op |-> "BeforeUnloadAdded"]
  /\ UNCHANGED <<lifeVars, registryVars, queueVars, gateVars, renderVars,
                 deliveredVars, activeLog, mCoalescedMouseData,
                 dispatchedMouse, wheelVars, drainFrames,
                 mToBeDispatchedMouseData, keyVars, navigateOps>>

\* BrowserChild::BeforeUnloadRemoved, called by the window when a
\* beforeunload listener that it had announced is removed.
BeforeUnloadRemoved ==
  /\ ~crashed
  /\ initState = "ok"
  /\ ~destructed
  /\ mBeforeUnloadListeners > 0
  /\ Len(sentHasBeforeUnload) < MaxBeforeUnloadMessages
  /\ mBeforeUnloadListeners' = mBeforeUnloadListeners - 1
  /\ sentHasBeforeUnload' =
       IF ShouldNotifyBeforeUnload(mBeforeUnloadListeners')
       THEN Append(sentHasBeforeUnload, FALSE) ELSE sentHasBeforeUnload
  /\ lastOp' = [op |-> "BeforeUnloadRemoved"]
  /\ UNCHANGED <<lifeVars, registryVars, queueVars, gateVars, renderVars,
                 deliveredVars, activeLog, mCoalescedMouseData,
                 dispatchedMouse, wheelVars, drainFrames,
                 mToBeDispatchedMouseData, keyVars, navigateOps>>

\* ------------------------------------------------ client navigate operations
NavigateOpIds == 1..MaxNavigateOps

browserChildVars ==
  <<lifeVars, registryVars, queueVars, gateVars, renderVars, deliveredVars,
    activeLog, mCoalescedMouseData, dispatchedMouse, wheelVars, drainFrames,
    keyVars, unloadVars, mToBeDispatchedMouseData>>

\* The failing nsresult values a callee can hand back.
FailureCodes == {"NS_ERROR_FAILURE", "NS_ERROR_MALFORMED_URI"}

\* Where ClientNavigateOpChild::DoNavigate leaves: one value per early return
\* and "started" for the path that reaches the final Then.
DoNavigateInputs ==
  {"no_source", "no_window", "bad_base_url", "bad_url", "about_blank",
   "inactive_doc", "no_principal", "no_docshell", "load_failed",
   "add_listener_failed", "started"}

Rejected(value) == [state |-> "rejected", value |-> value]
Resolved(value) == [state |-> "resolved", value |-> value]
Pending == [state |-> "pending", value |-> "none"]
NoPromise == [state |-> "none", value |-> "none"]

\* ClientNavigateOpChild::DoNavigate: the promise it returns, the promise it
\* hands to the load listener, whether the listener is registered and whether
\* mSerialEventTarget was taken from the window.  rv is the failing result of
\* the callee that failed, if one did.
DoNavigate(input, rv) ==
  LET target == IF input \in {"no_source", "no_window"}
                THEN "null" ELSE "window"
      early(value) ==
        [mSerialEventTarget |-> target, listener |-> "none",
         mPromise |-> NoPromise, returned |-> Rejected(value)]
  IN CASE input \in {"no_source", "no_window", "inactive_doc", "no_docshell"}
            -> early("NS_ERROR_DOM_INVALID_STATE_ERR")
       [] input \in {"bad_base_url", "bad_url", "load_failed"} -> early(rv)
       [] input = "about_blank" -> early("NS_ERROR_FAILURE")
       \* return CreateAndReject(rv), rv being the result of the last
       \* NS_NewURI, which succeeded
       [] input = "no_principal" -> early("NS_OK")
       [] input = "add_listener_failed"
            -> [mSerialEventTarget |-> target, listener |-> "none",
                mPromise |-> Rejected(rv), returned |-> Rejected(rv)]
       [] OTHER
            -> [mSerialEventTarget |-> target, listener |-> "registered",
                mPromise |-> Pending, returned |-> Pending]

\* ClientNavigateOpChild::Init, called once on the actor that the manager has
\* just constructed.  The callbacks of Then run from mSerialEventTarget, never
\* inside Then.
NavigateOpInit(o) ==
  /\ ~navigateOps[o].constructed
  /\ \A p \in NavigateOpIds : p < o => navigateOps[p].constructed
  /\ \E input \in DoNavigateInputs, rv \in FailureCodes :
       LET r == DoNavigate(input, rv)
       IN /\ navigateOps' =
               [navigateOps EXCEPT ![o] =
                  [@ EXCEPT !.constructed = TRUE,
                            !.mSerialEventTarget =
                               IF r.mSerialEventTarget = "null"
                               THEN "current" ELSE r.mSerialEventTarget,
                            !.listener = r.listener,
                            !.mPromise = r.mPromise,
                            !.returned = r.returned,
                            !.task = IF r.returned.state = "pending"
                                     THEN "none" ELSE "complete",
                            !.mPromiseRequestHolder = "tracking"]]
          /\ lastOp' = [op |-> "NavigateOpInit", id |-> o, input |-> input]
  /\ UNCHANGED browserChildVars

\* What the load listener finds at the notification it acts on.
LoadOutcomes == {"no_channel", "no_final_uri", "cross_origin", "same_origin"}

\* The value NavigateLoadListener::OnStateChange settles its promise with.
LoadSettlement(outcome, rv) ==
  CASE outcome = "no_channel" -> Rejected("NS_ERROR_DOM_INVALID_STATE_ERR")
    [] outcome = "no_final_uri" -> Rejected(rv)
    [] outcome = "cross_origin" -> Resolved("NS_OK")
    [] OTHER -> Resolved("ClientInfoAndState")

RemoveProgressListener_Stays(listener) == listener

\* aWebProgress->RemoveProgressListener(this)
RemoveProgressListener(listener) == "removed"

\* NavigateLoadListener::OnStateChange, called by the web progress on a
\* listener that is registered with it.  The settled promise queues the
\* callback that DoNavigate chained to it.
OnStateChange(o) ==
  /\ navigateOps[o].listener = "registered"
  /\ \E isDocument \in BOOLEAN, stopOrTransfer \in BOOLEAN,
        outcome \in LoadOutcomes, rv \in FailureCodes :
       /\ navigateOps' =
            IF ~isDocument \/ ~stopOrTransfer THEN navigateOps
            ELSE [navigateOps EXCEPT ![o] =
                    [@ EXCEPT !.listener = RemoveProgressListener(@),
                              !.settles = @ + 1,
                              !.mPromise =
                                 IF @.state = "pending"
                                 THEN LoadSettlement(outcome, rv) ELSE @,
                              !.task = "forward"]]
       /\ lastOp' = [op |-> "OnStateChange", id |-> o,
                     acted |-> isDocument /\ stopOrTransfer]
  /\ UNCHANGED browserChildVars

DisconnectIfExists_Keeps(holder) == holder

\* mPromiseRequestHolder.DisconnectIfExists()
DisconnectIfExists(holder) ==
  IF holder = "tracking" THEN "disconnected" ELSE holder

\* mSerialEventTarget runs the callback that a settled promise queued: the
\* one DoNavigate chained to the listener's promise, which settles the
\* promise DoNavigate returned, or the one Init chained to that promise,
\* which is dropped if its request was disconnected.  Send__delete__ ends
\* the actor.
RunNavigateCallback(o) ==
  /\ navigateOps[o].task # "none"
  /\ navigateOps' =
       [navigateOps EXCEPT ![o] =
          IF @.task = "forward"
          THEN [@ EXCEPT !.returned = navigateOps[o].mPromise,
                         !.task = "complete"]
          ELSE IF @.mPromiseRequestHolder = "tracking"
          THEN [@ EXCEPT !.mPromiseRequestHolder = "completed",
                         !.replies = Append(@, navigateOps[o].returned.value),
                         !.destroyed = TRUE,
                         !.task = "none"]
          ELSE [@ EXCEPT !.task = "none"]]
  /\ lastOp' = [op |-> "RunNavigateCallback", id |-> o,
                callback |-> navigateOps[o].task]
  /\ UNCHANGED browserChildVars

\* ClientNavigateOpChild::ActorDestroy on an actor that has not sent
\* __delete__.
NavigateActorDestroy(o) ==
  /\ navigateOps[o].constructed
  /\ ~navigateOps[o].destroyed
  /\ navigateOps' =
       [navigateOps EXCEPT ![o] =
          [@ EXCEPT !.mPromiseRequestHolder = DisconnectIfExists(@),
                    !.destroyed = TRUE]]
  /\ lastOp' = [op |-> "NavigateActorDestroy", id |-> o]
  /\ UNCHANGED browserChildVars

\* ------------------------------------------------------------ specifications
InitKeys ==
  /\ Init
  /\ ~isMiddleman
  /\ ~debugBuild
  /\ mCoalesceMouseMoveEvents
  /\ undelivered = {}

\* The parent stamps the key events in the order in which it sends them.
KeyOrderedInput ==
  lastOp.op = "RecvRealKeyEvent" => lastOp'.event.time >= lastOp.event.time

NextKeys ==
  \/ BrowserChildInit
  \/ (RecvRealKeyEvent /\ KeyOrderedInput)

SpecKeys == InitKeys /\ [][NextKeys]_vars

NextNavigate ==
  \/ \E o \in NavigateOpIds : NavigateOpInit(o)
  \/ \E o \in NavigateOpIds : OnStateChange(o)
  \/ \E o \in NavigateOpIds : RunNavigateCallback(o)
  \/ \E o \in NavigateOpIds : NavigateActorDestroy(o)

SpecNavigate == InitKeys /\ [][NextNavigate]_vars

NextUnload ==
  \/ BrowserChildInit
  \/ BeforeUnloadAdded
  \/ BeforeUnloadRemoved
  \/ (~mDestroyed /\ RecvDestroy)
  \/ ActorDestroy

SpecUnload == InitKeys /\ [][NextUnload]_vars

\* Every operation of the actor.
Next ==
  \/ BrowserChildInit
  \/ EnqueueTask
  \/ RunOpaqueTask
  \/ RunDelayedDelete
  \/ RecvDestroy
  \/ ActorDestroy
  \/ RecvInitRendering
  \/ RecvRenderLayersMsg
  \/ PaintWhileInterruptingJS
  \/ DeliverRequest
  \/ AddPendingDocShellBlocker
  \/ RemovePendingDocShellBlocker
  \/ RecvSetDocShellIsActive
  \/ RecvRealMouseMoveEvent
  \/ RecvRealMouseButtonEvent
  \/ RecvMouseWheelEvent
  \/ RecvRealKeyEvent
  \/ BeforeUnloadAdded
  \/ BeforeUnloadRemoved
  \/ \E o \in NavigateOpIds : NavigateOpInit(o)
  \/ \E o \in NavigateOpIds : OnStateChange(o)
  \/ \E o \in NavigateOpIds : RunNavigateCallback(o)
  \/ \E o \in NavigateOpIds : NavigateActorDestroy(o)

Spec == Init /\ [][Next]_vars

InitLife == Init /\ undelivered = {}

NextLife ==
  \/ BrowserChildInit
  \/ EnqueueTask
  \/ RunOpaqueTask
  \/ RunDelayedDelete
  \/ RecvDestroy
  \/ ActorDestroy

SpecLife == InitLife /\ [][NextLife]_vars

\* The render-state requests of a release build that is not a middleman, with
\* at most one Destroy; the event loop is left out, so a delayed-delete
\* runnable stays queued.
InitRender ==
  /\ Init
  /\ ~isMiddleman
  /\ ~debugBuild
  /\ mCoalesceMouseMoveEvents
  /\ undelivered = {}

NextRender ==
  \/ BrowserChildInit
  \/ RecvRenderLayersMsg
  \/ PaintWhileInterruptingJS
  \/ AddPendingDocShellBlocker
  \/ RemovePendingDocShellBlocker
  \/ (~mDestroyed /\ RecvDestroy)
  \/ ActorDestroy

SpecRender == InitRender /\ [][NextRender]_vars

\* A set of requests with distinct epochs delivered in any order on the two
\* paths, with blockers added and removed in between.
InitOrder ==
  /\ Init
  /\ ~isMiddleman
  /\ ~debugBuild
  /\ mCoalesceMouseMoveEvents
  /\ undelivered # {}

NextOrder ==
  \/ BrowserChildInit
  \/ DeliverRequest
  \/ AddPendingDocShellBlocker
  \/ RemovePendingDocShellBlocker

SpecOrder == InitOrder /\ [][NextOrder]_vars

\* The two channels, each in order, with no blocker outstanding.
NextChannels ==
  \/ BrowserChildInit
  \/ DeliverOnChannel
  \/ DeliverExpedited
  \/ ActorDestroy

SpecChannels == InitOrder /\ [][NextChannels]_vars

\* InboundHandled counts the effects of the inbound messages so far; the gate
\* and teardown runs stop delivering messages at MaxInbound effects.
InboundHandled ==
  Len(activeLog) + Len(appliedRender) + Len(sentNoOp)
    + Len(dispatchedMouse) + Len(dispatchedWheel)

\* Render requests of the gate and teardown runs do not force a repaint.
TeardownRenderInput == ~lastOp'.force

\* The gate of pending docshell blockers: activations and render-state
\* requests arriving while window opening holds blockers, in a release build
\* that is not a middleman.
InitGate ==
  /\ Init
  /\ ~isMiddleman
  /\ ~debugBuild
  /\ mCoalesceMouseMoveEvents
  /\ undelivered = {}

NextGate ==
  \/ BrowserChildInit
  \/ AddPendingDocShellBlocker
  \/ RemovePendingDocShellBlocker
  \/ (InboundHandled < MaxInbound /\ RecvSetDocShellIsActive)
  \/ (InboundHandled < MaxInbound /\ RecvRenderLayersMsg
        /\ TeardownRenderInput)

SpecGate == InitGate /\ [][NextGate]_vars

\* The blocker counter under releases that no add matches.
NextCounter ==
  \/ BrowserChildInit
  \/ AddPendingDocShellBlocker
  \/ RemovePendingDocShellBlocker
  \/ RemovePendingDocShellBlockerUnpaired
  \/ (InboundHandled < MaxInbound /\ RecvSetDocShellIsActive)
  \/ (InboundHandled < MaxInbound /\ RecvRenderLayersMsg
        /\ TeardownRenderInput)

SpecCounter == InitGate /\ [][NextCounter]_vars

\* Mouse moves and button events, with the coalescing preference on or off,
\* before and after a single Destroy.
InitMouse ==
  /\ Init
  /\ ~isMiddleman
  /\ ~debugBuild
  /\ undelivered = {}

\* In the mouse runs an event's input block id equals its position, button
\* events have one position and one compatibility class, and messages are
\* delivered until the first dispatch to content.
MouseInputTied == lastOp'.blockId = lastOp'.event.pos

MouseButtonInput == lastOp'.event.pos = 1 /\ lastOp'.event.compat = 1

NothingDispatched == dispatchedMouse = <<>>

NextMouse ==
  \/ BrowserChildInit
  \/ (NothingDispatched /\ RecvRealMouseMoveEvent /\ MouseInputTied)
  \/ (NothingDispatched /\ RecvRealMouseButtonEvent /\ MouseInputTied
        /\ MouseButtonInput)
  \/ (~mDestroyed /\ RecvDestroy)

SpecMouse == InitMouse /\ [][NextMouse]_vars

\* The mouse handlers taken step by step, with deliveries nested in a
\* dispatch, and a single Destroy that can itself be delivered in a nested
\* loop.  Once the flusher is gone the handlers dispatch directly.
InitDrain ==
  /\ Init
  /\ ~isMiddleman
  /\ ~debugBuild
  /\ mCoalesceMouseMoveEvents
  /\ undelivered = {}

\* In the step-by-step runs a move has one position and its input block id
\* equals its compatibility class; a button event has one position, one
\* compatibility class and one input block id.
DrainMoveInput ==
  lastOp'.event.pos = 1 /\ lastOp'.blockId = lastOp'.event.compat

DrainButtonInput ==
  /\ lastOp'.event.pos = 1
  /\ lastOp'.event.compat = 1
  /\ lastOp'.blockId = 1

NextDrain ==
  \/ BrowserChildInit
  \/ (RecvRealMouseMoveEventEnter /\ DrainMoveInput)
  \/ (RecvRealMouseButtonEventEnter /\ DrainButtonInput)
  \/ DispatchNext
  \/ DrainReturn
  \/ (~mDestroyed /\ ~AtProcessCall /\ RecvDestroy)
  \/ (~CoalescingActive /\ MouseEventsHeld < MaxHeld
        /\ RecvRealMouseButtonEvent /\ DrainButtonInput)

SpecDrain == InitDrain /\ [][NextDrain]_vars

\* The registry: registration, the teardown from Destroy, from ActorDestroy
\* and from the destructor on the main thread, and lookups on the compositor
\* thread.
InitRegistry ==
  /\ Init
  /\ ~isMiddleman
  /\ mCoalesceMouseMoveEvents
  /\ undelivered = {}

NextRegistry ==
  \/ BrowserChildInit
  \/ RecvInitRendering
  \/ (~mDestroyed /\ RecvDestroy)
  \/ ActorDestroy
  \/ RunDelayedDelete
  \/ BrowserChildDtor
  \/ GetFromLock
  \/ GetFromRead
  \/ GetFromUnlock

SpecRegistry == InitRegistry /\ [][NextRegistry]_vars

\* A burst of wheel events of one compatibility class: timestamps do not
\* decrease from one event to the next and grow by at most MaxSpacing.
InitWheel ==
  /\ Init
  /\ ~isMiddleman
  /\ ~debugBuild
  /\ mCoalesceMouseMoveEvents
  /\ undelivered = {}

WheelBurstInput ==
  /\ lastOp'.event.message = "eWheel"
  /\ lastOp'.event.compat = 1
  /\ lastOp.op = "RecvMouseWheelEvent"
       => /\ lastOp'.event.time >= lastOp.event.time
          /\ lastOp'.event.time <= lastOp.event.time + MaxSpacing

NextWheel ==
  \/ BrowserChildInit
  \/ (RecvMouseWheelEvent /\ WheelBurstInput)

SpecWheel == InitWheel /\ [][NextWheel]_vars

\* Wheel messages of every kind, compatibility class and peek result.
\* The parent stamps the events in the order in which it sends them.
WheelOrderedInput ==
  lastOp.op = "RecvMouseWheelEvent"
    => lastOp'.event.time >= lastOp.event.time

NextWheelInputs ==
  \/ BrowserChildInit
  \/ (RecvMouseWheelEvent /\ WheelOrderedInput)

SpecWheelInputs == InitWheel /\ [][NextWheelInputs]_vars

\* The messages that still arrive after Destroy: mouse moves at any time,
\* every other inbound message once Destroy has been processed.
InitTeardown ==
  /\ Init
  /\ ~isMiddleman
  /\ ~debugBuild
  /\ mCoalesceMouseMoveEvents
  /\ undelivered = {}

\* The teardown runs deliver a single Destroy and use one position, one
\* compatibility class and one input block id for mouse events and one
\* timestamp and one compatibility class for wheel events, which are eWheel
\* events whose dispatch takes at most one unit of time.
TeardownMouseInput ==
  /\ lastOp'.event.pos = 1
  /\ lastOp'.event.compat = 1
  /\ lastOp'.blockId = 1

TeardownWheelInput ==
  /\ lastOp'.event.message = "eWheel"
  /\ lastOp'.event.time = 1
  /\ lastOp'.event.compat = 1
  /\ mLastWheelProcessingDuration' <= 1

NextTeardown ==
  \/ BrowserChildInit
  \/ (InboundHandled < MaxInbound /\ RecvRealMouseMoveEvent
        /\ TeardownMouseInput)
  \/ (~mDestroyed /\ RecvDestroy)
  \/ RunDelayedDelete
  \/ ActorDestroy
  \/ (mDestroyed /\ InboundHandled < MaxInbound /\ RecvRenderLayersMsg
        /\ TeardownRenderInput)
  \/ (mDestroyed /\ InboundHandled < MaxInbound /\ RecvSetDocShellIsActive)
  \/ (mDestroyed /\ InboundHandled < MaxInbound /\ RecvRealMouseButtonEvent
        /\ TeardownMouseInput)
  \/ (mDestroyed /\ InboundHandled < MaxInbound /\ RecvMouseWheelEvent
        /\ TeardownWheelInput)

SpecTeardown == InitTeardown /\ [][NextTeardown]_vars


\* ------------------------------------------------------- delayed delete
FinalRuns == 1..Len(finalRunLog)

SentRuns == {i \in FinalRuns : finalRunLog[i].sent}

\* C1 (as stated): the final run sends the delete message whenever the
\* channel is still open, and one Destroy instruction never leads to more
\* than one delete message.
C1_Original ==
  /\ \A i \in FinalRuns : finalRunLog[i].open => finalRunLog[i].sent
  /\ destroyCount <= 1 => deleteSent <= 1

\* C1 (amended): every delayed-delete runnable makes at most one final run,
\* and that run sends the delete message exactly when the channel is still
\* open and the process is not a middleman with a recording child; so a
\* single Destroy instruction leads to at most one delete message, and to
\* exactly one when the channel is open at the final run outside a middleman.
C1_DeleteSentOncePerDestroy ==
  /\ \A i, j \in FinalRuns : finalRunLog[i].r = finalRunLog[j].r => i = j
  /\ \A i \in FinalRuns :
       finalRunLog[i].sent <=> (finalRunLog[i].open /\ ~isMiddleman)
  /\ deleteSent = Cardinality(SentRuns)
  /\ deleteSent <= Len(runnables)
  /\ destroyCount <= 1 => deleteSent <= 1

C1_Witness ==
  /\ destroyCount = 1
  /\ deleteSent = 1
  /\ ranTasks # {}
  /\ lastOp.op = "DelayedDelete" /\ lastOp.pass = 2 /\ lastOp.sent

\* The inbound messages C2 is about, by the name their handler records.
InboundOps ==
  {"RecvRenderLayers", "RecvSetDocShellIsActive", "RecvRealMouseMoveEvent",
   "RecvRealMouseButtonEvent", "RecvMouseWheelEvent"}

MouseOps == {"RecvRealMouseMoveEvent", "RecvRealMouseButtonEvent"}

C3_FinalRunAfterQueuedTasks ==
  \A i \in FinalRuns :
    (queuedAtDestroy.normal \cup queuedAtDestroy.input) \subseteq
      finalRunLog[i].ran

C3_Witness ==
  /\ finalRunLog # <<>>
  /\ queuedAtDestroy.normal # {}
  /\ queuedAtDestroy.input # {}
  /\ lastOp.op = "DelayedDelete" /\ lastOp.pass = 2
  /\ lastOp.ranAt = PRIORITY_INPUT

\* C4: a final run that finds the channel closed sends no delete message,
\* ends without a failed assertion and drops the runnable's reference to the
\* actor.
C4_ClosedChannelSkipsSend ==
  /\ deleteSent = Cardinality(SentRuns)
  /\ \A i \in FinalRuns :
       ~finalRunLog[i].open =>
         /\ ~finalRunLog[i].sent
         /\ ~runnables[finalRunLog[i].r].mBrowserChild
  /\ (lastOp.op = "DelayedDelete" /\ lastOp.pass = 2) => ~crashed

C4_Witness ==
  /\ actorDestroyed
  /\ ~isMiddleman
  /\ deleteSent = 0
  /\ lastOp.op = "DelayedDelete" /\ lastOp.pass = 2 /\ ~lastOp.sent
  /\ ~runnables[lastOp.r].mBrowserChild

RenderOps == {"RecvRenderLayers", "PaintWhileInterruptingJS"}

pendingRenderVars == <<mPendingRenderLayersReceivedMessage,
                       mPendingRenderLayers, mPendingLayersObserverEpoch>>

MaxOf(S) == CHOOSE x \in S : \A y \in S : y <= x

\* C6: with no blocker outstanding a render-state request is applied exactly
\* when its epoch is greater than the current epoch; a request with a lower
\* or equal epoch leaves the epoch, the visibility and the logs as they were.
C6_AppliedIffNewerEpoch ==
  [][(lastOp'.op \in RenderOps /\ ~BlockersOutstanding) =>
       IF lastOp'.epoch > mLayersObserverEpoch
       THEN /\ mLayersObserverEpoch' = lastOp'.epoch
            /\ appliedRender' =
                 Append(appliedRender, [epoch |-> lastOp'.epoch,
                                        enabled |-> lastOp'.enabled])
       ELSE UNCHANGED renderVars]_vars

\* Two requests were applied and a duplicate of the second one (same epoch,
\* other enabled flag) was discarded last.
C6_Witness ==
  /\ mPendingDocShellBlockers = 0
  /\ ~mPendingRenderLayersReceivedMessage
  /\ Len(appliedRender) = 2
  /\ lastOp.op = "RecvRenderLayers"
  /\ lastOp.epoch = mLayersObserverEpoch
  /\ lastOp.enabled # appliedRender[2].enabled

\* C7: once every request of a set with pairwise distinct epochs has been
\* delivered and no blocker is outstanding, the current epoch and the
\* visibility are those of the request with the highest epoch.
C7_HighestEpochWins ==
  (/\ initState = "ok"
   /\ undelivered = {}
   /\ mPendingDocShellBlockers = 0
   /\ \A e \in DOMAIN requested : e > InitialLayersObserverEpoch) =>
    /\ mLayersObserverEpoch = MaxOf(DOMAIN requested)
    /\ visible = requested[MaxOf(DOMAIN requested)]

\* C8: no step lowers the current render epoch.
C8_EpochNeverDecreases ==
  [][mLayersObserverEpoch' >= mLayersObserverEpoch]_vars

\* The epoch was raised, the actor has processed Destroy, and a request with
\* an older epoch (newer than the initial one) was discarded last.
C8_Witness ==
  /\ mDestroyed
  /\ mPendingDocShellBlockers = 0
  /\ Len(appliedRender) >= 1
  /\ lastOp.op \in RenderOps
  /\ lastOp.epoch < mLayersObserverEpoch
  /\ lastOp.epoch > InitialLayersObserverEpoch

C10_StaleKeepsQueuedRequest ==
  [][(/\ lastOp'.op \in RenderOps
      /\ lastOp'.epoch <= mLayersObserverEpoch
      /\ mPendingRenderLayersReceivedMessage
      /\ mPendingLayersObserverEpoch > mLayersObserverEpoch) =>
       UNCHANGED pendingRenderVars]_vars

\* C11: while a blocker is outstanding no activation is applied: a received
\* activation only overwrites the queued value.  The step that brings the
\* blocker count to zero applies exactly one activation, the queued one, when
\* an activation was received while blocked, and none otherwise; the queued
\* value changes only when an activation is received while blocked, so it is
\* the last one received.
C11_LastActivationReplayedOnce ==
  [][/\ (mPendingDocShellBlockers # 0 /\ mPendingDocShellBlockers' # 0)
          => activeLog' = activeLog
     /\ (mPendingDocShellBlockers # 0
           /\ lastOp'.op = "RecvSetDocShellIsActive")
          => /\ mPendingDocShellReceivedMessage'
             /\ mPendingDocShellIsActive' = lastOp'.active
     /\ lastOp'.op # "RecvSetDocShellIsActive"
          => mPendingDocShellIsActive' = mPendingDocShellIsActive
     /\ (mPendingDocShellBlockers # 0 /\ mPendingDocShellBlockers' = 0)
          => /\ activeLog' =
                  IF mPendingDocShellReceivedMessage
                  THEN Append(activeLog, mPendingDocShellIsActive)
                  ELSE activeLog
             /\ ~mPendingDocShellReceivedMessage'
     /\ (mPendingDocShellBlockers = 0) => ~mPendingDocShellReceivedMessage
    ]_vars

\* The last step of addBlocker; setActive ...; setActive(true); removeBlocker:
\* the only activation applied is the queued value true.
C11_Witness ==
  /\ lastOp.op = "RemoveBlocker"
  /\ lastOp.replayActive
  /\ mPendingDocShellBlockers = 0
  /\ activeLog = <<TRUE>>
  /\ mPendingDocShellIsActive

\* C12: the queued activation and the queued render request are independent.
\* While blocked, an activation leaves the queued render request alone and a
\* render request leaves the queued activation alone.  The step that brings
\* the blocker count to zero replays each kind that was queued, once: the
\* activation is applied, and the render request is handed to RecvRenderLayers
\* with its queued enabled value and epoch and without forced repaint (so it
\* is applied when its epoch is newer than the current one); both queued
\* flags are cleared, and a kind that was not queued is not replayed.
C12_QueuedKindsIndependent ==
  [][/\ (mPendingDocShellBlockers # 0
           /\ lastOp'.op = "RecvSetDocShellIsActive")
          => UNCHANGED <<pendingRenderVars, renderVars>>
     /\ (mPendingDocShellBlockers # 0 /\ lastOp'.op = "RecvRenderLayers")
          => /\ UNCHANGED <<mPendingDocShellIsActive,
                            mPendingDocShellReceivedMessage, activeLog>>
             /\ mPendingRenderLayersReceivedMessage'
             /\ mPendingRenderLayers' = lastOp'.enabled
             /\ mPendingLayersObserverEpoch' = lastOp'.epoch
     /\ (mPendingDocShellBlockers # 0 /\ mPendingDocShellBlockers' = 0)
          => /\ lastOp'.replayActive = mPendingDocShellReceivedMessage
             /\ lastOp'.replayRender = mPendingRenderLayersReceivedMessage
             /\ ~mPendingDocShellReceivedMessage'
             /\ ~mPendingRenderLayersReceivedMessage'
             /\ activeLog' =
                  IF mPendingDocShellReceivedMessage
                  THEN Append(activeLog, mPendingDocShellIsActive)
                  ELSE activeLog
             /\ appliedRender' =
                  IF /\ mPendingRenderLayersReceivedMessage
                     /\ mPendingLayersObserverEpoch > mLayersObserverEpoch
                  THEN Append(appliedRender,
                              [epoch |-> mPendingLayersObserverEpoch,
                               enabled |-> mPendingRenderLayers])
                  ELSE appliedRender
     /\ (mPendingDocShellBlockers = 0)
          => /\ ~mPendingDocShellReceivedMessage
             /\ ~mPendingRenderLayersReceivedMessage
    ]_vars

\* A release that replayed both kinds: the queued activation and the queued
\* render request are the last applied ones.
C12_Witness ==
  /\ lastOp.op = "RemoveBlocker"
  /\ lastOp.replayActive
  /\ lastOp.replayRender
  /\ activeLog # <<>>
  /\ activeLog[Len(activeLog)] = mPendingDocShellIsActive
  /\ appliedRender # <<>>
  /\ appliedRender[Len(appliedRender)] =
       [epoch |-> mPendingLayersObserverEpoch,
        enabled |-> mPendingRenderLayers]

\* C13: in a state where the blocker count is not zero an activation or a
\* render request applies nothing.  With nested blockers a release that
\* leaves the count above zero replays nothing and keeps what is queued; a
\* release replays only when it brings the count to zero.
C13_NothingAppliedWhileBlocked ==
  [][/\ (mPendingDocShellBlockers # 0
           /\ lastOp'.op \in {"RecvSetDocShellIsActive", "RecvRenderLayers"})
          => UNCHANGED <<activeLog, renderVars, mPendingDocShellBlockers>>
     /\ (lastOp'.op = "RemoveBlocker" /\ mPendingDocShellBlockers' # 0)
          => /\ ~lastOp'.replayActive
             /\ ~lastOp'.replayRender
             /\ UNCHANGED <<activeLog, renderVars, pendingRenderVars,
                            mPendingDocShellIsActive,
                            mPendingDocShellReceivedMessage>>
     /\ (lastOp'.op = "RemoveBlocker"
           /\ (lastOp'.replayActive \/ lastOp'.replayRender))
          => mPendingDocShellBlockers' = 0
    ]_vars

\* The first release of two nested blockers: both kinds are still queued and
\* nothing has been applied.
C13_Witness ==
  /\ lastOp.op = "RemoveBlocker"
  /\ mPendingDocShellBlockers = MaxBlockers - 1
  /\ mPendingDocShellBlockers # 0
  /\ mPendingDocShellReceivedMessage
  /\ mPendingRenderLayersReceivedMessage
  /\ activeLog = <<>>
  /\ appliedRender = <<>>

BufferedPointers ==
  {p \in DOMAIN mCoalescedMouseData : ~mCoalescedMouseData[p].empty}

\* The entries a step appended to the log of events handed to content.
NewlyDispatched ==
  {dispatchedMouse'[i] : i \in (Len(dispatchedMouse) + 1)..Len(dispatchedMouse')}

AsDispatched(data) == [event |-> data.event, blockId |-> data.blockId]

\* C15: with coalescing active, a move that is compatible with the record of
\* its pointer is merged and not dispatched, and the record then carries that
\* move's position and input block id, whatever it held; the records of the
\* other pointers are untouched.  When the record is flushed, by a button
\* event or by an incompatible move of the same pointer, exactly one event is
\* dispatched for it, and it is the record's event with the record's input
\* block id: the last of the N moves.
C15_MergedMovesDispatchLast ==
  [][LET p == lastOp'.event.pointerId
         compatible ==
           \/ p \notin BufferedPointers
           \/ mCoalescedMouseData[p].event.compat = lastOp'.event.compat
     IN /\ (CoalescingActive /\ lastOp'.op = "RecvRealMouseMoveEvent"
              /\ compatible)
             => /\ dispatchedMouse' = dispatchedMouse
                /\ DOMAIN mCoalescedMouseData' =
                     DOMAIN mCoalescedMouseData \cup {p}
                /\ mCoalescedMouseData'[p].event = lastOp'.event
                /\ mCoalescedMouseData'[p].blockId = lastOp'.blockId
                /\ \A q \in DOMAIN mCoalescedMouseData \ {p} :
                     mCoalescedMouseData'[q] = mCoalescedMouseData[q]
        /\ (CoalescingActive /\ lastOp'.op = "RecvRealMouseMoveEvent"
              /\ ~compatible)
             => /\ dispatchedMouse' =
                     Append(dispatchedMouse,
                            AsDispatched(mCoalescedMouseData[p]))
                /\ mCoalescedMouseData'[p].event = lastOp'.event
        /\ (CoalescingActive /\ lastOp'.op = "RecvRealMouseButtonEvent")
             => /\ Len(dispatchedMouse') =
                     Len(dispatchedMouse) + Cardinality(BufferedPointers) + 1
                /\ \A q \in BufferedPointers :
                     /\ AsDispatched(mCoalescedMouseData[q])
                          \in NewlyDispatched
                     /\ \A e \in NewlyDispatched :
                          (e.event.pointerId = q
                             /\ e.event.message = "eMouseMove")
                            => e = AsDispatched(mCoalescedMouseData[q])
    ]_vars

\* Two moves of a pointer were merged: the second arrived while the first was
\* buffered, nothing was dispatched, and the record carries the second.
C15_Witness ==
  /\ lastOp.op = "RecvRealMouseMoveEvent"
  /\ lastOp.merged
  /\ dispatchedMouse = <<>>
  /\ mCoalescedMouseData[lastOp.event.pointerId].event = lastOp.event
  /\ mCoalescedMouseData[lastOp.event.pointerId].blockId = lastOp.blockId
  /\ lastOp.event.pos = MaxPayload

\* C16: a button event received with coalescing active moves every buffered
\* record of every pointer out of the table, which is left empty, and
\* dispatches each of them before the button event: the button is the last
\* event dispatched by the step and the queue of data to dispatch is empty
\* again.
C16_ButtonFlushesAllMoves ==
  [][(CoalescingActive /\ lastOp'.op = "RecvRealMouseButtonEvent")
       => /\ mCoalescedMouseData' = <<>>
          /\ mToBeDispatchedMouseData' = <<>>
          /\ Len(dispatchedMouse') > Len(dispatchedMouse)
          /\ dispatchedMouse'[Len(dispatchedMouse')] =
               [event |-> lastOp'.event, blockId |-> lastOp'.blockId]
          /\ \A q \in BufferedPointers :
               \E i \in (Len(dispatchedMouse) + 1)..(Len(dispatchedMouse') - 1) :
                 dispatchedMouse'[i] = AsDispatched(mCoalescedMouseData[q])
          /\ \A i \in 1..Len(dispatchedMouse) :
               dispatchedMouse'[i] = dispatchedMouse[i]
    ]_vars

\* A button event flushed the buffered moves of two pointers: both moves were
\* dispatched, then the button, and the table is empty.
C16_Witness ==
  /\ lastOp.op = "RecvRealMouseButtonEvent"
  /\ mCoalescedMouseEventFlusher
  /\ mCoalescedMouseData = <<>>
  /\ Len(dispatchedMouse) = 3
  /\ dispatchedMouse[1].event.message = "eMouseMove"
  /\ dispatchedMouse[2].event.message = "eMouseMove"
  /\ dispatchedMouse[1].event.pointerId # dispatchedMouse[2].event.pointerId
  /\ dispatchedMouse[3].event = lastOp.event

\* The position in the log, after the step, of the move dispatched for q.
DispatchIndexOf(q) ==
  CHOOSE i \in (Len(dispatchedMouse) + 1)..Len(dispatchedMouse') :
    /\ dispatchedMouse'[i].event.pointerId = q
    /\ dispatchedMouse'[i].event.message = "eMouseMove"

\* C17 (as stated): when a button event of pointer P1 flushes pending moves of
\* P1 and of another pointer P2, the move of P1 is dispatched before the move
\* of P2.
C17_Original ==
  [][(CoalescingActive /\ lastOp'.op = "RecvRealMouseButtonEvent")
       => \A p2 \in BufferedPointers :
            (lastOp'.event.pointerId \in BufferedPointers
               /\ p2 # lastOp'.event.pointerId)
              => DispatchIndexOf(lastOp'.event.pointerId)
                   < DispatchIndexOf(p2)
    ]_vars

\* C17 (amended): a button event flushes the pending move of every pointer,
\* each dispatched once and before the button, which comes last; the order
\* among the moves of different pointers is that of the table's iteration
\* and does not depend on the pointer of the button event.
C17_MovesBeforeButtonAnyOrder ==
  [][(CoalescingActive /\ lastOp'.op = "RecvRealMouseButtonEvent")
       => LET new == (Len(dispatchedMouse) + 1)..Len(dispatchedMouse')
              moves == {i \in new :
                          dispatchedMouse'[i].event.message = "eMouseMove"}
          IN /\ Cardinality(moves) = Cardinality(BufferedPointers)
             /\ \A q \in BufferedPointers :
                  \E i \in moves :
                    /\ dispatchedMouse'[i] =
                         AsDispatched(mCoalescedMouseData[q])
                    /\ \A j \in moves :
                         dispatchedMouse'[j].event.pointerId = q => j = i
             /\ \A i \in moves : i < Len(dispatchedMouse')
             /\ new \ moves = {Len(dispatchedMouse')}
             /\ dispatchedMouse'[Len(dispatchedMouse')].event = lastOp'.event
    ]_vars

\* A button event of one pointer flushed two pending moves and the move of
\* the other pointer was dispatched first.
C17_Witness ==
  /\ lastOp.op = "RecvRealMouseButtonEvent"
  /\ mCoalescedMouseEventFlusher
  /\ Len(dispatchedMouse) = 3
  /\ dispatchedMouse[1].event.message = "eMouseMove"
  /\ dispatchedMouse[1].event.pointerId # lastOp.event.pointerId
  /\ dispatchedMouse[2].event.message = "eMouseMove"
  /\ dispatchedMouse[2].event.pointerId = lastOp.event.pointerId
  /\ dispatchedMouse[3] = [event |-> lastOp.event, blockId |-> lastOp.blockId]

\* The queue before the step is the front part of the queue after it.
QueueExtended ==
  /\ Len(mToBeDispatchedMouseData') >= Len(mToBeDispatchedMouseData)
  /\ SubSeq(mToBeDispatchedMouseData', 1, Len(mToBeDispatchedMouseData))
       = mToBeDispatchedMouseData

\* The step took the front of the queue and dispatched exactly that item.
FrontDispatched ==
  /\ mToBeDispatchedMouseData # <<>>
  /\ mToBeDispatchedMouseData' = Tail(mToBeDispatchedMouseData)
  /\ dispatchedMouse' =
       Append(dispatchedMouse, AsDispatched(Head(mToBeDispatchedMouseData)))

C19_RegistryUnderMutex ==
  [][/\ lastOp'.op = "GetFromRead"
          => /\ sBrowserChildrenMutex = "compositor"
             /\ sBrowserChildrenMutex' = "compositor"
             /\ compositor'.result = (compositor.id \in sBrowserChildren.ids)
     /\ sBrowserChildren' # sBrowserChildren
          => /\ sBrowserChildrenMutex = "free"
             /\ sBrowserChildrenMutex' = "free"
             /\ compositor.pc \in {"idle", "returned"}
     /\ (compositor'.pc = "read" /\ compositor'.afterRemoval)
          => ~compositor'.result
     /\ (compositor'.pc = "read" /\ compositor'.result)
          => compositor'.id \in sBrowserChildren'.ids
    ]_vars

\* A lookup of the id that the teardown had just removed took the mutex
\* after the teardown released it, and has returned null.
C19_Witness ==
  /\ compositor.pc = "returned"
  /\ compositor.afterRemoval
  /\ ~compositor.result
  /\ mDestroyed
  /\ mLayersId = InvalidLayersId
  /\ lastOp.op = "GetFromUnlock"
  /\ sBrowserChildrenMutex = "free"

\* C20: in the state that the teardown of the actor leaves (Destroy
\* processed, or ActorDestroy), a lookup of any surface id the actor was
\* registered under before returns null: the removal is part of the step of
\* the teardown.  The model has one actor, so every entry of the registry
\* is an id this actor was registered under.
C20_TeardownRemovesEveryEntry ==
  [][(lastOp'.op \in {"RecvDestroy", "ActorDestroy"} /\ ~crashed')
       => \A aLayersId \in LayersIds :
            GetFrom(aLayersId) => ~GetFrom(aLayersId)'
    ]_vars

\* C21: in every reachable state each entry of the registry is keyed by the
\* current surface id of the actor it maps to: attaching a different id
\* removes the entry of the old one, and no entry is left once the actor has
\* no surface id (before the first attach, after the teardown).
C21_EntryKeyIsCurrentId ==
  \A aLayersId \in LayersIds :
    GetFrom(aLayersId) => aLayersId = mLayersId

TeardownOps == {"RecvDestroy", "ActorDestroy", "~BrowserChild"}

\* C23: the unregister step of the teardown can be run again: in the state
\* that a teardown leaves, one more run of the step does not enter the
\* branch that touches the registry, so it cannot fail on a deleted map, and
\* it leaves mLayersId and the registry as they are; a teardown that runs
\* after an earlier one, with nothing registered in between, changes
\* neither.
C23_UnregisterIdempotent ==
  [][(lastOp'.op \in TeardownOps /\ ~crashed')
       => LET again == Unregister(mLayersId', sBrowserChildren')
          IN /\ ~Unregister(mLayersId, sBrowserChildren).fault
             /\ ~again.fault
             /\ again.mLayersId = mLayersId'
             /\ again.sBrowserChildren = sBrowserChildren'
             /\ ((mDestroyed \/ actorDestroyed)
                   /\ mLayersId = InvalidLayersId)
                  => /\ sBrowserChildren' = sBrowserChildren
                     /\ mLayersId' = mLayersId
    ]_vars

\* The teardown has run from Destroy, from ActorDestroy and from the
\* destructor, and the map, in which a lookup had found the actor, was
\* deleted when its last entry was removed.
C23_Witness ==
  /\ lastOp.op = "~BrowserChild"
  /\ mDestroyed
  /\ actorDestroyed
  /\ destructed
  /\ ~crashed
  /\ ~sBrowserChildren.alloc
  /\ mLayersId = InvalidLayersId
  /\ finalRunLog # <<>>
  /\ compositor.pc = "returned"
  /\ compositor.result

\* C24: in the step that sends the channel-close message the actor holds
\* no buffered input and no registry entry: the queue of data to dispatch is
\* empty, no record of mCoalescedMouseData holds an event,
\* mCoalescedWheelData is empty and the registry has no entry of the actor.
C24_NothingHeldAtDelete ==
  [][(lastOp'.op = "DelayedDelete" /\ lastOp'.sent)
       => /\ mToBeDispatchedMouseData = <<>>
          /\ \A p \in DOMAIN mCoalescedMouseData :
               mCoalescedMouseData[p].empty
          /\ mCoalescedWheelData.empty
          /\ mLayersId = InvalidLayersId
          /\ sBrowserChildren.ids = {}
    ]_vars

\* The event of the step is inside a burst: it is not the first event, the
\* event before it had it as its queued next wheel event, it has a next
\* wheel event queued itself, and its timestamp is less than the duration
\* estimate after the timestamp of the event before it.
InsideBurst ==
  /\ lastOp'.op = "RecvMouseWheelEvent"
  /\ lastOp.op = "RecvMouseWheelEvent"
  /\ lastOp.next
  /\ lastOp'.next
  /\ mLastWheelProcessedTimeFromParent # NullTimeStamp
  /\ lastOp'.event.time < lastOp.event.time + mLastWheelProcessingDuration

\* C25 (as stated): an event inside a burst is merged and not dispatched, so
\* that between the first and the last event of the burst at most the one
\* merged event is dispatched, whatever the length of the burst.
C25_Original ==
  [][InsideBurst
       => /\ dispatchedWheel' = dispatchedWheel
          /\ mCoalescedWheelData' = [empty |-> FALSE, event |-> lastOp'.event]
    ]_vars

\* C25 (amended): an event inside a burst is merged if its timestamp is
\* earlier than the end of the processing of the wheel event dispatched last
\* plus the measured duration of that processing; otherwise the pending
\* merged event, if any, is dispatched, then the event itself, and its
\* timestamp and measured duration start the next window.  The last event of
\* a burst is dispatched after the pending merged event.
C25_MergedWithinWindowOfLastDispatch ==
  [][(lastOp'.op = "RecvMouseWheelEvent" /\ lastOp'.event.message = "eWheel"
        /\ CanCoalesceWheel(mCoalescedWheelData, lastOp'.event))
       => LET pending == IF mCoalescedWheelData.empty THEN <<>>
                         ELSE <<mCoalescedWheelData.event>>
              inWindow ==
                /\ mLastWheelProcessedTimeFromParent # NullTimeStamp
                /\ lastOp'.event.time <
                     mLastWheelProcessedTimeFromParent
                       + mLastWheelProcessingDuration
          IN IF lastOp'.next /\ inWindow
             THEN /\ dispatchedWheel' = dispatchedWheel
                  /\ mCoalescedWheelData' =
                       [empty |-> FALSE, event |-> lastOp'.event]
                  /\ UNCHANGED <<mLastWheelProcessedTimeFromParent,
                                 mLastWheelProcessingDuration>>
             ELSE /\ dispatchedWheel' =
                       dispatchedWheel \o pending \o <<lastOp'.event>>
                  /\ mCoalescedWheelData'.empty
                  /\ IF lastOp'.next
                     THEN mLastWheelProcessedTimeFromParent' =
                            lastOp'.event.time + mLastWheelProcessingDuration'
                     ELSE mLastWheelProcessedTimeFromParent' = NullTimeStamp
    ]_vars

\* An event inside a burst, less than the duration estimate after the event
\* before it, has been dispatched behind the first event and a merged one,
\* and the burst goes on.
C25_Witness ==
  /\ lastOp.op = "RecvMouseWheelEvent"
  /\ lastOp.next
  /\ Len(dispatchedWheel) = 3
  /\ dispatchedWheel[3] = lastOp.event
  /\ dispatchedWheel[1].time < dispatchedWheel[2].time
  /\ dispatchedWheel[2].time < dispatchedWheel[3].time
  /\ dispatchedWheel[3].time - dispatchedWheel[2].time
       < mLastWheelProcessingDuration
  /\ mCoalescedWheelData.empty

\* The step applied an enable request that does not force a repaint: it
\* appended an enabled entry to appliedRender, and it is either the replay of
\* the pending slot, which never forces, or a request with forceRepaint false.
AppliedEnableNoForce ==
  /\ Len(appliedRender') = Len(appliedRender) + 1
  /\ appliedRender'[Len(appliedRender')].enabled
  /\ IF lastOp'.op = "RemoveBlocker" THEN lastOp'.replayRender
     ELSE ~lastOp'.force

C27_OpenOnlyWhenInitSucceeds ==
  [][(lastOp'.op = "Init" /\ lastOp'.outcome # "ok") => ~mIPCOpen']_vars

\* The number of entries of the queue that are the delayed-delete runnable r.
DeleteEntries(queue, r) ==
  Cardinality({i \in DOMAIN queue :
                 queue[i].kind = "delete" /\ queue[i].id = r})

\* C28: the delayed-delete runnable runs exactly twice.  Its first run, at
\* normal priority, sends nothing and re-submits the same runnable once, now
\* reporting input priority.  Only the second run may send __delete__; it
\* drops the runnable's reference to the actor and leaves the runnable in no
\* queue, and a runnable that has dropped its reference never runs again.
C28_DelayedDeleteRunsTwice ==
  [][lastOp'.op = "DelayedDelete" =>
       LET r == lastOp'.r
       IN /\ runnables[r].mBrowserChild
          /\ DeleteEntries(normalQueue, r) + DeleteEntries(inputQueue, r) = 1
          /\ IF ~runnables[r].mReadyToDelete
             THEN /\ lastOp'.pass = 1
                  /\ lastOp'.ranAt = PRIORITY_NORMAL
                  /\ ~lastOp'.sent
                  /\ deleteSent' = deleteSent
                  /\ runnables'[r].mBrowserChild
                  /\ GetPriority(runnables'[r]) = PRIORITY_INPUT
                  /\ DeleteEntries(normalQueue', r) = 0
                  /\ DeleteEntries(inputQueue', r) = 1
             ELSE /\ lastOp'.pass = 2
                  /\ lastOp'.ranAt = PRIORITY_INPUT
                  /\ deleteSent' = deleteSent + (IF lastOp'.sent THEN 1 ELSE 0)
                  /\ ~runnables'[r].mBrowserChild
                  /\ DeleteEntries(normalQueue', r) = 0
                  /\ DeleteEntries(inputQueue', r) = 0
    ]_vars

\* The second run of a runnable has sent __delete__ while other tasks were
\* still queued, and the runnable is in neither queue.
C28_Witness ==
  /\ lastOp.op = "DelayedDelete"
  /\ lastOp.pass = 2
  /\ lastOp.ranAt = PRIORITY_INPUT
  /\ lastOp.sent
  /\ deleteSent = 1
  /\ DeleteEntries(normalQueue, lastOp.r) = 0
  /\ DeleteEntries(inputQueue, lastOp.r) = 0
  /\ normalQueue # <<>>

\* C29: when the drain of the queue of data to dispatch returns, coalescing
\* being active and the actor not destroyed, the queue is empty, also when
\* handlers nested in the dispatch of an item appended new items.  The loop
\* tests the queue before every item it takes, so the number of items a call
\* dispatches is not the size the queue had when its loop started, and no
\* call takes an item from an empty queue.
C29_DrainReturnsWithEmptyQueue ==
  [][/\ (lastOp'.op = "DrainReturn" /\ CoalescingActive)
          => mToBeDispatchedMouseData' = <<>>
     /\ lastOp'.op = "DispatchNext"
          => /\ mToBeDispatchedMouseData # <<>>
             /\ ~crashed'
    ]_vars

\* A call of the drain has returned on an empty queue, coalescing still
\* active, after a handler nested in one of its dispatches appended items;
\* the call dispatched fewer items than the queue held when its loop started,
\* the nested call having dispatched the others.
C29_Witness ==
  /\ lastOp.op = "DrainReturn"
  /\ CoalescingActive
  /\ lastOp.frame.appended
  /\ lastOp.frame.popped < lastOp.frame.entrySize
  /\ drainFrames = <<>>
  /\ mToBeDispatchedMouseData = <<>>
  /\ Len(dispatchedMouse) = 3

\* C30: when a move for pointer P cannot be merged into the record of P,
\* the old record of P is put on the queue of data to dispatch and is
\* dispatched by this receive; the new move becomes the record of P and is
\* not dispatched by this receive; the records of the other pointers stay
\* buffered, unchanged.
C30_IncompatibleMoveDispatchesOldRecord ==
  [][(/\ CoalescingActive
      /\ lastOp'.op = "RecvRealMouseMoveEvent"
      /\ lastOp'.event.pointerId \in BufferedPointers
      /\ ~CanCoalesce(mCoalescedMouseData[lastOp'.event.pointerId],
                      lastOp'.event, lastOp'.blockId))
       => LET p == lastOp'.event.pointerId
          IN /\ ~lastOp'.merged
             /\ dispatchedMouse' =
                  dispatchedMouse
                    \o DrainMouseData(mToBeDispatchedMouseData, <<>>)
                    \o <<AsDispatched(mCoalescedMouseData[p])>>
             /\ mToBeDispatchedMouseData' = <<>>
             /\ DOMAIN mCoalescedMouseData' = DOMAIN mCoalescedMouseData
             /\ mCoalescedMouseData'[p] =
                  [empty |-> FALSE, event |-> lastOp'.event,
                   blockId |-> lastOp'.blockId]
             /\ \A q \in DOMAIN mCoalescedMouseData \ {p} :
                  mCoalescedMouseData'[q] = mCoalescedMouseData[q]
    ]_vars

\* An incompatible move for one pointer has dispatched that pointer's old
\* record alone, while the other pointer's record is still buffered.
C30_Witness ==
  /\ lastOp.op = "RecvRealMouseMoveEvent"
  /\ ~lastOp.merged
  /\ mCoalescedMouseEventFlusher
  /\ Len(dispatchedMouse) = 1
  /\ dispatchedMouse[1].event.message = "eMouseMove"
  /\ dispatchedMouse[1].event.pointerId = lastOp.event.pointerId
  /\ dispatchedMouse[1].event.compat # lastOp.event.compat
  /\ mCoalescedMouseData[lastOp.event.pointerId].event = lastOp.event
  /\ \E q \in BufferedPointers : q # lastOp.event.pointerId

\* The event received by the step meets the four conditions for merging: it
\* is a plain wheel-delta, a next wheel event is queued, its timestamp is
\* earlier than the last-processed time plus the processing duration (there
\* being a last-processed time), and it is compatible with the pending
\* accumulated event or the accumulator is empty.
EligibleToMerge ==
  /\ lastOp'.event.message = "eWheel"
  /\ lastOp'.next
  /\ mLastWheelProcessedTimeFromParent # NullTimeStamp
  /\ lastOp'.event.time <
       mLastWheelProcessedTimeFromParent + mLastWheelProcessingDuration
  /\ (mCoalescedWheelData.empty
        \/ mCoalescedWheelData.event.compat = lastOp'.event.compat)

\* C31: a wheel event is merged into the accumulator, and not dispatched,
\* exactly when it meets the four conditions; in every other case it is
\* dispatched during its own receive.
C31_MergedExactlyWhenEligible ==
  [][lastOp'.op = "RecvMouseWheelEvent"
       => IF EligibleToMerge
          THEN /\ dispatchedWheel' = dispatchedWheel
               /\ mCoalescedWheelData' =
                    [empty |-> FALSE, event |-> lastOp'.event]
          ELSE /\ Len(dispatchedWheel') > Len(dispatchedWheel)
               /\ dispatchedWheel'[Len(dispatchedWheel')] = lastOp'.event
               /\ mCoalescedWheelData'.empty
    ]_vars

\* A wheel-delta with a next wheel event queued has been dispatched in its
\* own receive because the pending event, which had been merged and is now
\* dispatched ahead of it, was of another compatibility class.
C31_Witness ==
  /\ lastOp.op = "RecvMouseWheelEvent"
  /\ lastOp.event.message = "eWheel"
  /\ lastOp.next
  /\ Len(dispatchedWheel) = 3
  /\ dispatchedWheel[3] = lastOp.event
  /\ dispatchedWheel[2].message = "eWheel"
  /\ dispatchedWheel[2].compat # lastOp.event.compat
  /\ dispatchedWheel[2].time <= lastOp.event.time
  /\ mCoalescedWheelData.empty

\* C32: when a wheel event is not merged, the pending accumulated wheel
\* event, if any, is dispatched first and the new event second, and the
\* accumulator is empty afterwards; a merged event is put in the accumulator
\* and nothing is dispatched.  So wheel events are never dispatched out of
\* arrival order: the timestamps of the events dispatched never decrease.
C32_PendingDispatchedBeforeEvent ==
  [][lastOp'.op = "RecvMouseWheelEvent"
       => /\ IF dispatchedWheel' = dispatchedWheel
             THEN mCoalescedWheelData' =
                    [empty |-> FALSE, event |-> lastOp'.event]
             ELSE /\ dispatchedWheel' =
                       dispatchedWheel
                         \o (IF mCoalescedWheelData.empty THEN <<>>
                             ELSE <<mCoalescedWheelData.event>>)
                         \o <<lastOp'.event>>
                  /\ mCoalescedWheelData' = EmptyData
          /\ \A i, j \in DOMAIN dispatchedWheel' :
               i < j => dispatchedWheel'[i].time <= dispatchedWheel'[j].time
          /\ ~mCoalescedWheelData'.empty
               => \A i \in DOMAIN dispatchedWheel' :
                    dispatchedWheel'[i].time <= mCoalescedWheelData'.event.time
    ]_vars

\* The last event of a stream has been dispatched behind the pending event,
\* which was received earlier, and the accumulator is empty.
C32_Witness ==
  /\ lastOp.op = "RecvMouseWheelEvent"
  /\ ~lastOp.next
  /\ Len(dispatchedWheel) = 3
  /\ dispatchedWheel[3] = lastOp.event
  /\ dispatchedWheel[1].time < dispatchedWheel[2].time
  /\ dispatchedWheel[2].time < dispatchedWheel[3].time
  /\ mCoalescedWheelData.empty

\* C33: after a wheel event that has no next wheel event queued, the
\* last-processed time is null, and the wheel event received next is not
\* merged, whatever its timestamp and whether or not wheel events are queued
\* behind it: it is dispatched in its own receive.
C33_NoMergeAfterLastEvent ==
  [][lastOp'.op = "RecvMouseWheelEvent"
       => /\ ~lastOp'.peek
               => mLastWheelProcessedTimeFromParent' = NullTimeStamp
          /\ (lastOp.op = "RecvMouseWheelEvent" /\ ~lastOp.peek)
               => /\ mLastWheelProcessedTimeFromParent = NullTimeStamp
                  /\ dispatchedWheel' = Append(dispatchedWheel, lastOp'.event)
                  /\ mCoalescedWheelData'.empty
    ]_vars

\* A wheel-delta with a next wheel event queued has been dispatched in its
\* own receive, straight behind an event of its own class and timestamp that
\* had no next wheel event queued.
C33_Witness ==
  /\ lastOp.op = "RecvMouseWheelEvent"
  /\ lastOp.event.message = "eWheel"
  /\ lastOp.peek
  /\ lastOp.wasNull
  /\ Len(dispatchedWheel) = 2
  /\ dispatchedWheel[2] = lastOp.event
  /\ dispatchedWheel[1] = lastOp.event
  /\ mCoalescedWheelData.empty
  /\ mLastWheelProcessedTimeFromParent # NullTimeStamp

\* C37: a wheel event that marks the begin or the end of an operation is
\* never merged: the pending accumulated event is dispatched ahead of it, and
\* the last-processed time is reset to null even when wheel events are
\* queued behind it, so the wheel-delta that follows it is not merged.
C37_OperationMarkerNeverMerged ==
  [][lastOp'.op = "RecvMouseWheelEvent"
       => /\ lastOp'.event.message # "eWheel"
               => /\ dispatchedWheel' =
                       dispatchedWheel
                         \o (IF mCoalescedWheelData.empty THEN <<>>
                             ELSE <<mCoalescedWheelData.event>>)
                         \o <<lastOp'.event>>
                  /\ mCoalescedWheelData'.empty
                  /\ mLastWheelProcessedTimeFromParent' = NullTimeStamp
          /\ (lastOp.op = "RecvMouseWheelEvent"
                /\ lastOp.event.message # "eWheel")
               => /\ dispatchedWheel' = Append(dispatchedWheel, lastOp'.event)
                  /\ mCoalescedWheelData'.empty
    ]_vars

\* The end marker of an operation, with a wheel event queued behind it, has
\* been dispatched behind the merged wheel-delta that was pending, and the
\* last-processed time, which was set, is null.
C37_Witness ==
  /\ lastOp.op = "RecvMouseWheelEvent"
  /\ lastOp.event.message = "eWheelOperationEnd"
  /\ lastOp.peek
  /\ ~lastOp.wasNull
  /\ Len(dispatchedWheel) = 3
  /\ dispatchedWheel[3] = lastOp.event
  /\ dispatchedWheel[2].message = "eWheel"
  /\ mCoalescedWheelData.empty
  /\ mLastWheelProcessedTimeFromParent = NullTimeStamp

\* The number of times the request with this epoch has been applied.
TimesApplied(e) ==
  Cardinality({i \in DOMAIN appliedRender : appliedRender[i].epoch = e})

\* Both copies of the enable request with this epoch have arrived.
BothCopiesArrived(e) ==
  /\ e \in DOMAIN requested
  /\ requested[e]
  /\ e \notin undelivered
  /\ e \notin unexpedited

\* C34 (as stated): a request delivered on both paths with the same epoch
\* is applied exactly once in total, whichever copy arrives first, also when
\* the expedited copy was dropped.
C34_Original ==
  \A e \in Epochs :
    (BothCopiesArrived(e) /\ e > InitialLayersObserverEpoch)
      => TimesApplied(e) = 1

\* C34 (amended): with no blocker outstanding, a request delivered on both
\* paths is applied at most once in total, whichever copy arrives first, and
\* exactly once unless a request with a higher epoch has been applied; a
\* copy that the expedited path drops changes neither the epoch nor any
\* other render state.
C34_AppliedOnceUnlessSuperseded ==
  [][/\ lastOp'.op = "PaintWhileInterruptingJSDropped"
          => UNCHANGED <<renderVars, pendingRenderVars>>
     /\ \A e \in Epochs :
          /\ TimesApplied(e)' <= 1
          /\ (BothCopiesArrived(e)' /\ e > InitialLayersObserverEpoch)
               => \/ TimesApplied(e)' = 1
                  \/ /\ TimesApplied(e)' = 0
                     /\ \E i \in DOMAIN appliedRender' :
                          appliedRender'[i].epoch > e
    ]_vars

\* The copy on the PContent channel has arrived last and has been applied,
\* the expedited copy of the same request having been dropped.
C34_Witness ==
  /\ lastOp.op = "RecvRenderLayers"
  /\ lastOp.applied
  /\ BothCopiesArrived(lastOp.epoch)
  /\ TimesApplied(lastOp.epoch) = 1
  /\ mLayersObserverEpoch = lastOp.epoch
  /\ mIPCOpen

\* C35: the epochs carried by the acknowledgements sent are strictly
\* increasing over the whole run; each acknowledgement carries the current
\* epoch at the moment it is sent; none is sent once the channel is closed.
C35_AckEpochsIncrease ==
  [][sentNoOp' # sentNoOp
       => /\ mIPCOpen
          /\ sentNoOp' = Append(sentNoOp, mLayersObserverEpoch')
          /\ \A i \in DOMAIN sentNoOp : sentNoOp[i] < mLayersObserverEpoch'
    ]_vars

\* Two acknowledgements have been sent, the second with a higher epoch,
\* which is the current epoch, and the channel has been closed since.
C35_Witness ==
  /\ Len(sentNoOp) = 2
  /\ sentNoOp[1] < sentNoOp[2]
  /\ mLayersObserverEpoch = sentNoOp[2]
  /\ visible
  /\ actorDestroyed
  /\ ~mIPCOpen
  /\ lastOp.op = "ActorDestroy"

\* C36: a render-enable request queued while a blocker was outstanding is
\* replayed with forceRepaint false, whatever value it arrived with: on a
\* visible widget with the channel open the replay acknowledges and does not
\* repaint.  Each replay clears the queued-message flags, and a
\* RemovePendingDocShellBlocker that reaches zero with nothing queued since
\* the last replay applies nothing.
C36_ReplayNeverForcesRepaint ==
  [][lastOp'.op = "RemoveBlocker"
       => /\ lastOp'.replayRender
               = (mPendingDocShellBlockers' = 0
                    /\ mPendingRenderLayersReceivedMessage)
          /\ (lastOp'.replayRender /\ mPendingRenderLayers /\ visible
                /\ mIPCOpen /\ appliedRender' # appliedRender)
               => /\ sentNoOp' = Append(sentNoOp, mPendingLayersObserverEpoch)
                  /\ paintLog' = paintLog
          /\ mPendingDocShellBlockers' = 0
               => /\ ~mPendingRenderLayersReceivedMessage'
                  /\ ~mPendingDocShellReceivedMessage'
          /\ (~mPendingRenderLayersReceivedMessage
                /\ ~mPendingDocShellReceivedMessage)
               => UNCHANGED <<renderVars, activeLog>>
    ]_vars

\* The replay of a queued enable request on a visible widget, the channel
\* open, has sent the acknowledgement and has not repainted; the flags are
\* clear and no blocker is outstanding.
C36_Witness ==
  /\ lastOp.op = "RemoveBlocker"
  /\ lastOp.replayRender
  /\ mIPCOpen
  /\ mPendingDocShellBlockers = 0
  /\ ~mPendingRenderLayersReceivedMessage
  /\ Len(appliedRender) = 2
  /\ appliedRender[1].enabled
  /\ appliedRender[2].enabled
  /\ paintLog = <<appliedRender[1].epoch>>
  /\ sentNoOp = <<appliedRender[2].epoch>>

\* The event received by the step can be skipped: it is a keydown or a
\* keypress and CanSkipInRemoteProcess holds.
SkippableKey ==
  /\ CanSkipInRemoteProcess(lastOp'.event)
  /\ lastOp'.event.message \in {"eKeyDown", "eKeyPress"}

\* C38: a skippable keydown is skipped when its timestamp is earlier than
\* the recorded end time, and this sets the skip-keypress flag; while the
\* flag is set every skippable keypress is skipped.  The flag and the
\* recorded end time are cleared by a keydown that is not skipped and by an
\* event that cannot be skipped, after which the end time is null or the end
\* of the handling of that very event.  A keypress is skipped only while the
\* flag is set, and the flag is set only by skipping a keydown.
C38_KeyPressSkippedOnlyAfterSkippedKeyDown ==
  [][lastOp'.op = "RecvRealKeyEvent"
       => LET e == lastOp'.event
          IN /\ (e.message = "eKeyDown" /\ lastOp'.skipped)
                  => /\ SkippableKey
                     /\ mRepeatedKeyEventTime # NullTimeStamp
                     /\ mRepeatedKeyEventTime > e.time
                     /\ mSkipKeyPress'
                     /\ mRepeatedKeyEventTime' = mRepeatedKeyEventTime
             /\ (e.message = "eKeyPress" /\ SkippableKey /\ mSkipKeyPress)
                  => /\ lastOp'.skipped
                     /\ mSkipKeyPress'
                     /\ mRepeatedKeyEventTime' = mRepeatedKeyEventTime
             /\ (e.message = "eKeyPress" /\ lastOp'.skipped)
                  => (mSkipKeyPress /\ SkippableKey)
             /\ (mSkipKeyPress' /\ ~mSkipKeyPress)
                  => (e.message = "eKeyDown" /\ lastOp'.skipped)
             /\ (~SkippableKey \/ (e.message = "eKeyDown" /\ ~lastOp'.skipped))
                  => /\ ~lastOp'.skipped
                     /\ ~mSkipKeyPress'
                     /\ lastOp'.timeAfterSkip = NullTimeStamp
                     /\ \/ mRepeatedKeyEventTime' = NullTimeStamp
                        \/ /\ lastOp'.dispatched
                           /\ e.isRepeat
                           /\ e.message \in {"eKeyDown", "eKeyPress"}
                           /\ mRepeatedKeyEventTime' = lastOp'.now
             /\ e.message = "eKeyUp" => ~lastOp'.skipped
    ]_vars

\* A skippable keypress has been skipped behind a skipped keydown: of three
\* key events one has been dispatched, the flag is set and the end time
\* recorded for the first event is kept.
C38_Witness ==
  /\ lastOp.op = "RecvRealKeyEvent"
  /\ lastOp.event.message = "eKeyPress"
  /\ lastOp.skipped
  /\ handledKeys = 3
  /\ mSkipKeyPress
  /\ mRepeatedKeyEventTime > lastOp.event.time

\* The messages sent so far alternate, starting with true.
UnloadMessagesAlternate(log) ==
  \A i \in DOMAIN log : log[i] = (i % 2 = 1)

NavigationSettled(op) == op.returned.state \in {"resolved", "rejected"}

\* C40 as stated: an actor is destroyed without having replied only if the
\* navigation promise had not settled.
C40_Original ==
  [][\A o \in NavigateOpIds :
       (lastOp'.op = "NavigateActorDestroy" /\ lastOp'.id = o
        /\ navigateOps'[o].replies = <<>>)
         => ~NavigationSettled(navigateOps[o])]_vars

\* C40: a client navigate operation sends at most one __delete__ reply; the
\* reply is sent by the callback that Init chained to the navigation promise,
\* so after the promise has settled, carries the value the promise settled
\* with, and is sent whenever that callback runs on an actor that is still
\* alive; an actor destroyed by ActorDestroy before that callback runs,
\* before or after the promise settles, never replies; the load listener
\* settles its promise at most once, removing itself when it does.
C40_OneReplyUnlessDestroyedFirst ==
  [][\A o \in NavigateOpIds :
       LET old == navigateOps[o]
           new == navigateOps'[o]
           runs == lastOp'.op = "RunNavigateCallback" /\ lastOp'.id = o
                   /\ lastOp'.callback = "complete"
       IN /\ Len(new.replies) <= 1
          /\ new.replies # old.replies
               => /\ runs
                  /\ ~old.destroyed
                  /\ NavigationSettled(old)
                  /\ new.replies = <<old.returned.value>>
                  /\ new.destroyed
          /\ (runs /\ ~old.destroyed) => new.replies # old.replies
          /\ (old.destroyed /\ old.replies = <<>>) => new.replies = <<>>
          /\ new.settles <= 1
          /\ new.settles # old.settles
               => /\ old.listener = "registered"
                  /\ new.listener = "removed"
                  /\ old.mPromise.state = "pending"
                  /\ new.mPromise.state \in {"resolved", "rejected"}
    ]_vars

\* One operation has replied with the client snapshot after its load
\* stopped; the other one was destroyed while its load was under way, its
\* listener has settled since, both callbacks have run and no reply was sent.
C40_Witness ==
  /\ navigateOps[1].replies = <<"ClientInfoAndState">>
  /\ navigateOps[1].settles = 1
  /\ navigateOps[2].destroyed
  /\ navigateOps[2].mPromiseRequestHolder = "disconnected"
  /\ navigateOps[2].returned.state = "resolved"
  /\ navigateOps[2].task = "none"
  /\ navigateOps[2].replies = <<>>
  /\ lastOp.op = "RunNavigateCallback"

====
